---- MODULE Spec2Model ----
(***************************************************************************)
(* A model of the MQTT wire-protocol decoder of mqtt_decoder.py:           *)
(* the Remaining Length codec, the length-prefixed string codec, the       *)
(* per-type body decoders, decode_packet and the multiplexer loop of       *)
(* capture_packets.                                                        *)
(*                                                                         *)
(* Representation.  A byte buffer is a sequence of integers 0..255; the    *)
(* Python index i is the TLA+ index i+1 (At, Slice).  A Python str is the  *)
(* sequence of its code points.  Python's None is NoneInt where the code   *)
(* holds an int or None, NoneStr where it holds a str or None and          *)
(* NonePacket where decode_packet returns None.  A dict is a function on   *)
(* its keys.  The 'timestamp' key of a packet (the wall clock at decode    *)
(* time) is left out of the packet.                                        *)
(***************************************************************************)
EXTENDS Integers, Sequences, FiniteSets, TLC

VARIABLES
  pc,          \* the position of the program
  data,        \* the buffer passed to the decoder function under check
  offset,      \* its offset argument (a local of the UNSUBSCRIBE loop in SpecMux)
  arg,         \* what the input was built from (not read by the decoder)
  ret,         \* the value returned
  data2,       \* a second buffer, for statements that relate two runs
  ret2,        \* the value returned for data2
  mqtt_data,   \* capture_packets: the TCP payload walked by the multiplexer loop
  mux_offset,  \* capture_packets: the loop's offset into mqtt_data
  sink,        \* the packets handed to print_packet, in order, each with its
               \* offset in the payload, its label and the number of its record
  topics,      \* the topics list of the UNSUBSCRIBE loop
  stream,      \* capture_packets: the bytes the capture process writes to its stdout
  stream_pos,  \* the number of bytes of stream read so far
  proc,        \* the capture process: "none", "running" or "terminated"
  pkt_data,    \* the frame of the record being processed
  port,        \* the port argument
  direction,   \* the direction label of the record being processed
  reported,    \* what the handlers printed: "none", "stopped" or "error"
  processed,   \* the frames whose processing has ended, in order
  interrupted, \* an interrupt signal has been delivered
  packet_queue, \* MQTTDecoder.packet_queue (line 46), as the sequence of its items
  tcp_stream,   \* MQTTDecoder.tcp_stream (line 47), as the sequence of its items
  dataSet,          \* BaseSensorSimTask.dataSet: the entries of the SensorDataSet
  dataSetIndex,     \* BaseSensorSimTask.dataSetIndex
  useRandomizer,    \* BaseSensorSimTask.useRandomizer
  latestSensorData, \* BaseSensorSimTask.latestSensorData
  returned,         \* the values of the SensorData that generateTelemetry returned
  sensorDataCache,  \* DeviceDataManager.sensorDataCache: name -> SensorData
  dataMsgListener,  \* GetTelemetryResourceHandler.dataMsgListener
  latestData,       \* GetTelemetryResourceHandler.latestData
  handler_payload   \* GetTelemetryResourceHandler.payload

\* the attributes of the decoder object: no method assigns to them or calls
\* a method of theirs after __init__
decoder_vars == <<packet_queue, tcp_stream>>

\* the variables of capture_packets outside the multiplexer loop, and the
\* decoder it is given
capture_vars ==
  <<stream, stream_pos, proc, pkt_data, port, direction, reported, processed, interrupted,
    decoder_vars>>

\* the sensor simulation task (programmingtheiot.cda.sim)
sim_vars == <<dataSet, dataSetIndex, useRandomizer, latestSensorData, returned>>

\* the device data manager and the telemetry resource handler
\* (programmingtheiot.cda.app, programmingtheiot.cda.connection.handlers)
telemetry_vars == <<sensorDataCache, dataMsgListener, latestData, handler_payload>>

\* the objects of the device application
app_vars == <<sim_vars, telemetry_vars>>

vars == <<pc, data, offset, arg, ret, data2, ret2, mqtt_data, mux_offset, sink, topics,
          capture_vars, app_vars>>

----------------------------------------------------------------------------
(* Python values *)

NoneInt == -1

NoneStr == <<NoneInt>>

NonePacket == [type |-> "None"]

\* data[i]
At(d, i) == d[i + 1]

Min(a, b) == IF a < b THEN a ELSE b

\* data[a:b] and data[a:] for 0 <= a
Slice(d, a, b) == SubSeq(d, a + 1, Min(b, Len(d)))

SliceFrom(d, a) == SubSeq(d, a + 1, Len(d))

\* struct.unpack('>H', data[offset:offset+2])[0]
unpack_H(d, off) == At(d, off) * 256 + At(d, off + 1)

\* `name = expression`: the expression is evaluated once and what follows,
\* F, reads its value
Bind(v, F(_)) == CHOOSE r \in {F(x) : x \in {v}} : TRUE

\* bool(x), `if x:` for a str or None
Truthy(s) == s # NoneStr /\ s # <<>>

----------------------------------------------------------------------------
(* bytes.decode('utf-8', ...) : CPython's UTF-8 decoder.  utf8_step gives  *)
(* for the position i the decoded code point and the bytes it spans, or    *)
(* an error and the bytes the error spans (the error handler resumes after *)
(* them).                                                                  *)

IsContinuation(b) == b >= 128 /\ b <= 191

utf8_need(b0) == IF b0 < 224 THEN 1 ELSE IF b0 < 240 THEN 2 ELSE 3

utf8_lo1(b0) == IF b0 = 224 THEN 160 ELSE IF b0 = 240 THEN 144 ELSE 128

utf8_hi1(b0) == IF b0 = 237 THEN 159 ELSE IF b0 = 244 THEN 143 ELSE 191

utf8_step(d, i) ==
  LET n == Len(d) - i
      b0 == At(d, i)
      Err(k) == [ok |-> FALSE, cp |-> 0, n |-> k]
      Chr(c, k) == [ok |-> TRUE, cp |-> c, n |-> k]
  IN  IF b0 < 128 THEN Chr(b0, 1)
      ELSE IF b0 < 194 \/ b0 > 244 THEN Err(1)
      ELSE IF n < 2 THEN Err(1)
      ELSE IF At(d, i + 1) < utf8_lo1(b0) \/ At(d, i + 1) > utf8_hi1(b0) THEN Err(1)
      ELSE IF utf8_need(b0) = 1
        THEN Chr((b0 - 192) * 64 + (At(d, i + 1) - 128), 2)
      ELSE IF n < 3 THEN Err(2)
      ELSE IF ~IsContinuation(At(d, i + 2)) THEN Err(2)
      ELSE IF utf8_need(b0) = 2
        THEN Chr((b0 - 224) * 4096 + (At(d, i + 1) - 128) * 64 + (At(d, i + 2) - 128), 3)
      ELSE IF n < 4 THEN Err(3)
      ELSE IF ~IsContinuation(At(d, i + 3)) THEN Err(3)
      ELSE Chr((b0 - 240) * 262144 + (At(d, i + 1) - 128) * 4096
                 + (At(d, i + 2) - 128) * 64 + (At(d, i + 3) - 128), 4)

\* bytes.decode('utf-8', errors='ignore'): the code points from position 0
\* on, the bytes of an error skipped
decode_utf8_ignore(d) ==
  LET from[i \in 0..(Len(d) + 3)] ==
        IF i >= Len(d) THEN <<>>
        ELSE (IF utf8_step(d, i).ok THEN <<utf8_step(d, i).cp>> ELSE <<>>)
               \o from[i + utf8_step(d, i).n]
  IN  from[0]

\* bytes.decode('utf-8') does not raise UnicodeDecodeError
utf8_valid(d) ==
  LET from[i \in 0..(Len(d) + 3)] ==
        IF i >= Len(d) THEN TRUE
        ELSE utf8_step(d, i).ok /\ from[i + utf8_step(d, i).n]
  IN  from[0]

HexDigit(n) == IF n < 10 THEN 48 + n ELSE 87 + n

\* bytes.hex(): two lower-case hex digits for each byte
bytes_hex(d) ==
  [k \in 1..(2 * Len(d)) |->
     IF k % 2 = 1 THEN HexDigit(d[(k + 1) \div 2] \div 16)
     ELSE HexDigit(d[k \div 2] % 16)]

----------------------------------------------------------------------------
(* MQTTDecoder.decode_remaining_length *)

MaxMultiplier == 128 * 128 * 128

RECURSIVE remaining_length_loop_ge(_, _, _, _)
\* the bound test written `multiplier >= 128 * 128 * 128`
remaining_length_loop_ge(d, idx, value, multiplier) ==
  IF idx < Len(d)
  THEN LET byte == At(d, idx)
           value2 == value + (byte % 128) * multiplier
       IN  IF byte \div 128 = 0
           THEN [value |-> value2, next |-> idx + 1]
           ELSE IF multiplier * 128 >= MaxMultiplier
           THEN [value |-> NoneInt, next |-> idx + 1]
           ELSE remaining_length_loop_ge(d, idx + 1, value2, multiplier * 128)
  ELSE [value |-> value, next |-> idx + 1]

RECURSIVE remaining_length_loop_break(_, _, _, _)
\* the bound test leaving the loop (`break`) instead of returning None
remaining_length_loop_break(d, idx, value, multiplier) ==
  IF idx < Len(d)
  THEN LET byte == At(d, idx)
           value2 == value + (byte % 128) * multiplier
       IN  IF byte \div 128 = 0
           THEN [value |-> value2, next |-> idx + 1]
           ELSE IF multiplier * 128 > MaxMultiplier
           THEN [value |-> value2, next |-> idx + 2]
           ELSE remaining_length_loop_break(d, idx + 1, value2, multiplier * 128)
  ELSE [value |-> value, next |-> idx + 1]

RECURSIVE remaining_length_loop(_, _, _, _)
remaining_length_loop(d, idx, value, multiplier) ==
  IF idx < Len(d)
  THEN LET byte == At(d, idx)
           value2 == value + (byte % 128) * multiplier
       IN  IF byte \div 128 = 0
           THEN [value |-> value2, next |-> idx + 1]
           ELSE IF multiplier * 128 > MaxMultiplier
           THEN [value |-> NoneInt, next |-> idx + 1]
           ELSE remaining_length_loop(d, idx + 1, value2, multiplier * 128)
  ELSE [value |-> value, next |-> idx + 1]

decode_remaining_length(d, off) == remaining_length_loop(d, off, 0, 1)

(* MQTTDecoder.decode_string *)

\* the second length test written `<=` (an exact fit is refused)
decode_string_le(d, off) ==
  IF Len(d) < off + 2 THEN [str |-> NoneStr, next |-> off]
  ELSE LET length == unpack_H(d, off)
       IN  IF Len(d) <= off + 2 + length THEN [str |-> NoneStr, next |-> off]
           ELSE [str |-> decode_utf8_ignore(Slice(d, off + 2, off + 2 + length)),
                 next |-> off + 2 + length]

decode_string(d, off) ==
  IF Len(d) < off + 2 THEN [str |-> NoneStr, next |-> off]
  ELSE LET length == unpack_H(d, off)
       IN  IF Len(d) < off + 2 + length THEN [str |-> NoneStr, next |-> off]
           ELSE [str |-> decode_utf8_ignore(Slice(d, off + 2, off + 2 + length)),
                 next |-> off + 2 + length]

----------------------------------------------------------------------------
(* MQTT_PACKET_TYPES, CONNACK_CODES *)

MQTT_PACKET_TYPES ==
  [t \in 1..14 |->
     CASE t = 1 -> "CONNECT"    [] t = 2 -> "CONNACK"   [] t = 3 -> "PUBLISH"
       [] t = 4 -> "PUBACK"     [] t = 5 -> "PUBREC"    [] t = 6 -> "PUBREL"
       [] t = 7 -> "PUBCOMP"    [] t = 8 -> "SUBSCRIBE" [] t = 9 -> "SUBACK"
       [] t = 10 -> "UNSUBSCRIBE" [] t = 11 -> "UNSUBACK" [] t = 12 -> "PINGREQ"
       [] t = 13 -> "PINGRESP"  [] t = 14 -> "DISCONNECT"]

CONNACK_CODES ==
  [c \in 0..5 |->
     CASE c = 0 -> "Connection Accepted"
       [] c = 1 -> "Unacceptable protocol version"
       [] c = 2 -> "Identifier rejected"
       [] c = 3 -> "Server unavailable"
       [] c = 4 -> "Bad username or password"
       [] c = 5 -> "Not authorized"]

\* the lookup with the last entry of the table left out
connack_return_msg_short(code) ==
  IF code \in DOMAIN CONNACK_CODES \ {5}
  THEN [fmt |-> CONNACK_CODES[code], code |-> NoneInt]
  ELSE [fmt |-> "Unknown ({return_code})", code |-> code]

\* CONNACK_CODES.get(return_code, f"Unknown ({return_code})")
connack_return_msg(code) ==
  IF code \in DOMAIN CONNACK_CODES
  THEN [fmt |-> CONNACK_CODES[code], code |-> NoneInt]
  ELSE [fmt |-> "Unknown ({return_code})", code |-> code]

----------------------------------------------------------------------------
(* MQTTDecoder.decode_connect *)

\* '***hidden***'
HiddenPassword == <<42, 42, 42, 104, 105, 100, 100, 101, 110, 42, 42, 42>>

password_val_raw(password) == password

\* info['password_val'] for the decoded password string
password_val(password) == HiddenPassword

\* the masks of will (0x04) and will_retain (0x20) exchanged
connect_flags_swapped(flags) ==
  [clean_session |-> (flags \div 2) % 2 = 1,
   will          |-> (flags \div 32) % 2 = 1,
   will_qos      |-> (flags \div 8) % 4,
   will_retain   |-> (flags \div 4) % 2 = 1,
   password      |-> (flags \div 64) % 2 = 1,
   username      |-> (flags \div 128) % 2 = 1]

\* will_qos taken without the shift: (flags & 0x18)
connect_flags_unshifted(flags) ==
  [clean_session |-> (flags \div 2) % 2 = 1,
   will          |-> (flags \div 4) % 2 = 1,
   will_qos      |-> ((flags \div 8) % 4) * 8,
   will_retain   |-> (flags \div 32) % 2 = 1,
   password      |-> (flags \div 64) % 2 = 1,
   username      |-> (flags \div 128) % 2 = 1]

\* the keys set from the connect-flags byte
connect_flags(flags) ==
  [clean_session |-> (flags \div 2) % 2 = 1,
   will          |-> (flags \div 4) % 2 = 1,
   will_qos      |-> (flags \div 8) % 4,
   will_retain   |-> (flags \div 32) % 2 = 1,
   password      |-> (flags \div 64) % 2 = 1,
   username      |-> (flags \div 128) % 2 = 1]

\* an optional field: decode_string at prev.next when the flag is set,
\* the offset left where it is otherwise
decode_string_if(flag, d, prev) ==
  IF flag THEN decode_string(d, prev.next) ELSE [str |-> NoneStr, next |-> prev.next]

decode_connect(d, off) ==
  Bind(decode_string(d, off), LAMBDA proto :
    IF Len(d) < proto.next + 4 THEN [protocol |-> proto.str]
    ELSE
      Bind(connect_flags(At(d, proto.next + 1)), LAMBDA fl :
      Bind(decode_string(d, proto.next + 4), LAMBDA cid :
      Bind(decode_string_if(fl.will, d, cid), LAMBDA wt :
      Bind(decode_string_if(fl.will, d, wt), LAMBDA wm :
      Bind(decode_string_if(fl.username, d, wm), LAMBDA un :
      Bind(decode_string_if(fl.password, d, un), LAMBDA pw :
        LET info1 == [protocol |-> proto.str, level |-> At(d, proto.next)] @@ fl
                       @@ [keep_alive |-> unpack_H(d, proto.next + 2),
                           client_id |-> cid.str]
            info2 == IF fl.will
                     THEN info1 @@ [will_topic |-> wt.str, will_message |-> wm.str]
                     ELSE info1
            info3 == IF fl.username THEN info2 @@ [username_val |-> un.str] ELSE info2
        IN  IF fl.password
            THEN info3 @@ [password_val |-> password_val(pw.str)]
            ELSE info3)))))))

(* MQTTDecoder.decode_connack *)

decode_connack(d, off) ==
  IF Len(d) < off + 2 THEN <<>>
  ELSE [session_present |-> At(d, off) % 2 = 1,
        return_code     |-> At(d, off + 1),
        return_msg      |-> connack_return_msg(At(d, off + 1))]

(* MQTTDecoder.decode_publish *)

\* the QoS taken from bit 1 alone
publish_flags_qos_bit(flags) ==
  [dup |-> (flags \div 8) % 2 = 1, qos |-> (flags \div 2) % 2, retain |-> flags % 2 = 1]

\* dup, qos and retain of the fixed-header flags (lines 154-156)
publish_flags(flags) ==
  [dup |-> (flags \div 8) % 2 = 1, qos |-> (flags \div 2) % 4, retain |-> flags % 2 = 1]

\* a packet id read whatever the QoS
publish_has_packet_id_any_qos(qos, d, next) == Len(d) >= next + 2

\* lines 165-166: `if info['qos'] > 0:` `if len(data) >= offset + 2:`
publish_has_packet_id(qos, d, next) == qos > 0 /\ Len(d) >= next + 2

(* decode_publish.  `caught` says that the bare `except:` of line 173 is    *)
(* entered although the payload is valid UTF-8: it catches every exception *)
(* raised inside the try of lines 170-172, a KeyboardInterrupt included.   *)
publish_body(d, off, flags, caught) ==
  Bind(decode_string(d, off), LAMBDA topic :
    LET qos   == publish_flags(flags).qos
        info1 == publish_flags(flags) @@ [topic |-> topic.str]
        hasId == publish_has_packet_id(qos, d, topic.next)
        info2 == IF hasId THEN info1 @@ [packet_id |-> unpack_H(d, topic.next)] ELSE info1
        o2    == IF hasId THEN topic.next + 2 ELSE topic.next
        payload == SliceFrom(d, o2)
    IN  IF utf8_valid(payload) /\ ~caught
        THEN info2 @@ [payload |-> decode_utf8_ignore(payload), payload_type |-> "text"]
        ELSE info2 @@ [payload |-> bytes_hex(payload), payload_type |-> "hex"])

decode_publish(d, off, flags) == publish_body(d, off, flags, FALSE)

(* MQTTDecoder.decode_subscribe *)

RECURSIVE subscribe_topics_rev(_, _, _)
\* each topic filter put in front of the list
subscribe_topics_rev(d, off, acc) ==
  IF off < Len(d)
  THEN Bind(decode_string(d, off), LAMBDA t :
         IF Truthy(t.str) /\ t.next < Len(d)
         THEN subscribe_topics_rev(d, t.next + 1,
                                   <<[topic |-> t.str, qos |-> At(d, t.next)]>> \o acc)
         ELSE acc)
  ELSE acc

RECURSIVE subscribe_topics(_, _, _)
\* the `while offset < len(data)` loop over the topic filters
subscribe_topics(d, off, acc) ==
  IF off < Len(d)
  THEN Bind(decode_string(d, off), LAMBDA t :
         IF Truthy(t.str) /\ t.next < Len(d)
         THEN subscribe_topics(d, t.next + 1,
                               Append(acc, [topic |-> t.str, qos |-> At(d, t.next)]))
         ELSE acc)
  ELSE acc

decode_subscribe(d, off) ==
  IF Len(d) >= off + 2
  THEN [packet_id |-> unpack_H(d, off), topics |-> subscribe_topics(d, off + 2, <<>>)]
  ELSE [topics |-> subscribe_topics(d, off, <<>>)]

----------------------------------------------------------------------------
(* MQTTDecoder.decode_packet *)

\* The call does not return: the UNSUBSCRIBE topic loop repeats one state.
HangPacket == [type |-> "Hang"]

\* An exception leaves the try block.
Raised == [type |-> "Raised"]

RECURSIVE unsubscribe_topics(_, _, _)
(* The UNSUBSCRIBE branch's `while offset < len(data)` loop.  An iteration  *)
(* in which decode_string returns (None, offset) changes neither offset nor *)
(* topics, so the loop test is reached again in the same state: the loop    *)
(* does not end (hang).                                                     *)
unsubscribe_topics(d, off, acc) ==
  IF off < Len(d)
  THEN Bind(decode_string(d, off), LAMBDA t :
         LET acc2 == IF Truthy(t.str) THEN Append(acc, t.str) ELSE acc
         IN  IF t.next = off /\ acc2 = acc
             THEN [hang |-> TRUE, topics |-> acc]
             ELSE unsubscribe_topics(d, t.next, acc2))
  ELSE [hang |-> FALSE, topics |-> acc]

\* the keys every packet has (lines 221-227, without the timestamp)
packet_header(packet_type, flags, remaining_length) ==
  [type |-> MQTT_PACKET_TYPES[packet_type], type_code |-> packet_type,
   flags |-> flags, remaining_length |-> remaining_length]

\* the branches that read only a packet id (PUBACK, PUBREC, PUBREL, PUBCOMP, UNSUBACK)
with_packet_id(result, d, off) ==
  IF Len(d) >= off + 2 THEN result @@ [packet_id |-> unpack_H(d, off)] ELSE result

\* the if/elif chain on packet_type
decode_body(result, packet_type, flags, d, off) ==
  CASE packet_type = 1 -> result @@ [details |-> decode_connect(d, off)]
    [] packet_type = 2 -> result @@ [details |-> decode_connack(d, off)]
    [] packet_type = 3 -> result @@ [details |-> decode_publish(d, off, flags)]
    [] packet_type \in {4, 5, 6, 7, 11} -> with_packet_id(result, d, off)
    [] packet_type = 8 -> result @@ [details |-> decode_subscribe(d, off)]
    [] packet_type = 9 ->
         IF Len(d) >= off + 2
         THEN result @@ [packet_id |-> unpack_H(d, off),
                         return_codes |-> SliceFrom(d, off + 2)]
         ELSE result
    [] packet_type = 10 ->
         IF Len(d) >= off + 2
         THEN Bind(unsubscribe_topics(d, off + 2, <<>>), LAMBDA u :
                IF u.hang THEN HangPacket
                ELSE result @@ [packet_id |-> unpack_H(d, off), topics |-> u.topics])
         ELSE result
    [] OTHER -> result

\* the try block from the fixed header on (lines 208-270)
decode_from_header(d) ==
  IF Len(d) < 1 THEN Raised
  ELSE
    LET byte1 == At(d, 0)
        packet_type == (byte1 \div 16) % 16
        flags == byte1 % 16
    IN  IF packet_type \notin DOMAIN MQTT_PACKET_TYPES THEN NonePacket
        ELSE Bind(decode_remaining_length(d, 1), LAMBDA rl :
               IF rl.value = NoneInt THEN NonePacket
               ELSE decode_body(packet_header(packet_type, flags, rl.value),
                                packet_type, flags, d, rl.next))

\* the length test written `< 1`
decode_try_short(d) == IF Len(d) < 1 THEN NonePacket ELSE decode_from_header(d)

\* the try block
decode_try(d) == IF Len(d) < 2 THEN NonePacket ELSE decode_from_header(d)

decode_packet_unprotected(d) == decode_from_header(d)

\* try: ... except Exception: return None
decode_packet(d) ==
  Bind(decode_try(d), LAMBDA r : IF r = Raised THEN NonePacket ELSE r)

----------------------------------------------------------------------------
(* Inputs: the MQTT 3.1.1 encodings the decoder is checked against.        *)

RECURSIVE encode_remaining_length(_)
\* MQTT 3.1.1, 2.2.3: the Remaining Length encoder
encode_remaining_length(v) ==
  IF v \div 128 > 0
  THEN <<(v % 128) + 128>> \o encode_remaining_length(v \div 128)
  ELSE <<v % 128>>

\* MQTT 3.1.1, 1.5.3: a length-prefixed string holding the bytes b
mqtt_string(b) == <<Len(b) \div 256, Len(b) % 256>> \o b

\* a control packet: fixed header and body
mqtt_packet(type_code, flags, body) ==
  <<type_code * 16 + flags>> \o encode_remaining_length(Len(body)) \o body

\* the first Len(b) - cut bytes of b
CutShort(b, cut) == SubSeq(b, 1, Len(b) - cut)

RECURSIVE SeqsUpTo(_, _)
\* the sequences over S of length 0..n
SeqsUpTo(S, n) ==
  IF n = 0 THEN {<<>>}
  ELSE LET shorter == SeqsUpTo(S, n - 1)
       IN  shorter \cup {Append(q, x) : q \in {r \in shorter : Len(r) = n - 1}, x \in S}

\* the variables a specification does not use
\* the port parameter's default (line 327)
DefaultPort == 1883

\* capture_packets has not been called
IdleCapture ==
  /\ stream = <<>> /\ stream_pos = 0 /\ proc = "none" /\ pkt_data = <<>>
  /\ port = DefaultPort /\ direction = "" /\ reported = "none"
  /\ processed = <<>> /\ interrupted = FALSE
  /\ packet_queue = <<>> /\ tcp_stream = <<>>

\* None, where a SensorData object or a data set is expected
NoneData == [name |-> "None"]

\* no BaseSensorSimTask has been built
IdleSim ==
  /\ dataSet = NoneData /\ dataSetIndex = 0 /\ useRandomizer = FALSE
  /\ latestSensorData = NoneData /\ returned = <<>>

\* no DeviceDataManager and no GetTelemetryResourceHandler has been built
IdleTelemetry ==
  /\ sensorDataCache = <<>> /\ dataMsgListener = "None"
  /\ latestData = NoneData /\ handler_payload = [text |-> "{}"]

IdleApp == IdleSim /\ IdleTelemetry

IdleCall == data2 = <<>> /\ ret2 = NonePacket /\ IdleCapture /\ IdleApp
IdleMux  ==
  /\ mqtt_data = <<>> /\ mux_offset = 0 /\ sink = <<>> /\ topics = <<>>
  /\ IdleCapture /\ IdleApp

\* no function of mqtt_decoder.py is running
IdleDecoder ==
  /\ data = <<>> /\ offset = 0 /\ arg = <<>> /\ ret = NonePacket
  /\ data2 = <<>> /\ ret2 = NonePacket
  /\ mqtt_data = <<>> /\ mux_offset = 0 /\ sink = <<>> /\ topics = <<>>
  /\ IdleCapture

----------------------------------------------------------------------------
(* SpecVarInt: decode_remaining_length on the encodings of sample values   *)
(* (every combination of the base-128 digits VarIntDigits, so 1 to 4       *)
(* bytes), placed after MaxPad or fewer bytes, and on every sequence of    *)
(* MaxRawLen or fewer bytes of VarIntBytes at every offset.                *)

MaxPad == 2
MaxRawLen == 5

VarIntDigits == {0, 1, 64, 127}
VarIntBytes == {0, 127, 128, 129}

VarIntValues ==
  {d0 + 128 * d1 + 16384 * d2 + 2097152 * d3 :
     d0 \in VarIntDigits, d1 \in VarIntDigits, d2 \in VarIntDigits, d3 \in VarIntDigits}

VarIntInit ==
  /\ pc = "start"
  /\ ret = [value |-> NoneInt, next |-> 0]
  /\ \/ \E v \in VarIntValues, pad \in SeqsUpTo({128, 255}, MaxPad),
           suffix \in {<<>>, <<128>>, <<5>>} :
          /\ arg = v
          /\ data = pad \o encode_remaining_length(v) \o suffix
          /\ offset = Len(pad)
     \/ \E raw \in SeqsUpTo(VarIntBytes, MaxRawLen) :
          /\ arg = NoneInt
          /\ data = raw
          /\ offset \in 0..(Len(raw) + 1)
  /\ IdleCall /\ IdleMux

CallDecodeRemainingLength ==
  /\ pc = "start"
  /\ ret' = decode_remaining_length(data, offset)
  /\ pc' = "done"
  /\ UNCHANGED <<data, offset, arg, data2, ret2, mqtt_data, mux_offset, sink, topics>>
  /\ UNCHANGED <<capture_vars, app_vars>>

SpecVarInt == VarIntInit /\ [][CallDecodeRemainingLength]_vars

\* the largest value of a Remaining Length field
MaxRemainingLength == 128 * 128 * 128 * 128 - 1

(* C1: for every encoded value v (0..268,435,455, 1 to 4 bytes),           *)
(* decode_remaining_length at the first byte of the encoding returns       *)
(* exactly v, and the next offset is the offset plus the number of         *)
(* encoding bytes.                                                         *)
C1_RoundTrip ==
  (pc = "done" /\ arg # NoneInt) =>
     /\ arg \in 0..MaxRemainingLength
     /\ Len(encode_remaining_length(arg)) \in 1..4
     /\ ret.value = arg
     /\ ret.next = offset + Len(encode_remaining_length(arg))

\* the largest value, four encoding bytes, decoded at a non-zero offset
C1_Witness ==
  /\ pc = "done" /\ arg = MaxRemainingLength /\ offset > 0
  /\ Len(encode_remaining_length(arg)) = 4
  /\ ret.value = MaxRemainingLength

\* the four bytes at offset..offset+3 are in the buffer and all have 0x80 set
ContinuationThroughFourth ==
  /\ offset + 4 <= Len(data)
  /\ \A i \in 0..3 : At(data, offset + i) >= 128

(* C2: decode_remaining_length returns no value whenever the continuation  *)
(* bit is set through the fourth byte read; it stops there (next offset =  *)
(* offset + 4), and in no case does it go past four bytes or return a      *)
(* value that a fifth byte has been added to.                              *)
C2_FifthByteMalformed ==
  pc = "done" =>
     /\ ContinuationThroughFourth => (ret.value = NoneInt /\ ret.next = offset + 4)
     /\ ret.next <= offset + 4
     /\ ret.value # NoneInt => ret.value \in 0..MaxRemainingLength

\* five bytes, all with the top bit set, decoded from the first
C2_Witness ==
  /\ pc = "done" /\ Len(data) = 5 /\ offset = 0
  /\ \A i \in 0..4 : At(data, i) >= 128
  /\ ret.value = NoneInt

(* C12: whenever decode_remaining_length returns a value, for every buffer *)
(* and every offset, the next offset is the index just after a terminating *)
(* byte: next offset <= len(buffer) and the byte at next offset - 1 has    *)
(* its top bit clear.                                                      *)
C12_NextAfterTerminator ==
  (pc = "done" /\ ret.value # NoneInt) =>
     /\ ret.next >= 1
     /\ ret.next <= Len(data)
     /\ At(data, ret.next - 1) < 128

\* what holds of the code: a value is returned with the next offset just
\* after a terminating byte, or, the buffer having run out before one was
\* read, one past the index at which the loop stopped
C12_NextWhenReturned ==
  (pc = "done" /\ ret.value # NoneInt) =>
     \/ /\ ret.next \in (offset + 1)..Len(data)
        /\ At(data, ret.next - 1) < 128
        /\ \A i \in offset..(ret.next - 2) : At(data, i) >= 128
     \/ /\ ret.next > Len(data)
        /\ ret.next \in {offset + 1, Len(data) + 1}
        /\ \A i \in offset..(Len(data) - 1) : At(data, i) >= 128

\* the buffer ends on a continuation byte and a value is returned all the same
C12_ReturnedPastEnd ==
  /\ pc = "done" /\ data = <<128>> /\ offset = 0
  /\ ret = [value |-> 0, next |-> 2]

----------------------------------------------------------------------------
(* SpecString: decode_string on buffers made of an optional zero byte, a   *)
(* two-byte length prefix announcing 0..MaxStrLen+1 or 256.. bytes, and    *)
(* MaxStrLen or fewer content bytes (ASCII, the two bytes of U+00E9, and   *)
(* bytes that are invalid UTF-8 on their own), at every offset.            *)

MaxStrLen == 3

StringBytes == {97, 98, 99, 195, 169}

\* the UTF-8 encoding of one code point (Unicode 3.9, table 3-6)
utf8_encode_char(c) ==
  IF c < 128 THEN <<c>>
  ELSE IF c < 2048 THEN <<192 + (c \div 64), 128 + (c % 64)>>
  ELSE IF c < 65536
    THEN <<224 + (c \div 4096), 128 + ((c \div 64) % 64), 128 + (c % 64)>>
  ELSE <<240 + (c \div 262144), 128 + ((c \div 4096) % 64),
         128 + ((c \div 64) % 64), 128 + (c % 64)>>

RECURSIVE utf8_encode(_)
\* str.encode('utf-8')
utf8_encode(str) ==
  IF str = <<>> THEN <<>> ELSE utf8_encode_char(Head(str)) \o utf8_encode(Tail(str))

StringInit ==
  /\ pc = "start"
  /\ ret = [str |-> NoneStr, next |-> 0]
  /\ \E pad \in {<<>>, <<0>>}, hi \in {0, 1}, lo \in 0..(MaxStrLen + 1),
        content \in SeqsUpTo(StringBytes, MaxStrLen) :
       /\ arg = [pad |-> pad, length |-> hi * 256 + lo, content |-> content]
       /\ data = pad \o <<hi, lo>> \o content
       /\ offset \in 0..(Len(data) + 1)
  /\ IdleCall /\ IdleMux

CallDecodeString ==
  /\ pc = "start"
  /\ ret' = decode_string(data, offset)
  /\ pc' = "done"
  /\ UNCHANGED <<data, offset, arg, data2, ret2, mqtt_data, mux_offset, sink, topics>>
  /\ UNCHANGED <<capture_vars, app_vars>>

SpecString == StringInit /\ [][CallDecodeString]_vars

\* the big-endian 16-bit value of the two bytes at offset
PrefixAt(d, off) == d[off + 1] * 256 + d[off + 2]

\* the L bytes after the two-byte prefix at offset
ContentAt(d, off) == [i \in 1..PrefixAt(d, off) |-> d[off + 2 + i]]

\* at least 2 bytes remain at offset and at least 2+L remain
StringFits(d, off) == Len(d) - off >= 2 /\ Len(d) - off >= 2 + PrefixAt(d, off)

(* C10: when at least 2 bytes remain at offset and, with L the big-endian  *)
(* value of those two bytes, at least 2+L bytes remain, decode_string      *)
(* returns a string and next offset = offset+2+L, the string being the     *)
(* text of the L content bytes (for valid UTF-8 content: the string whose  *)
(* UTF-8 encoding is those bytes; [0,3,'a','b','c'] gives ("abc", 5)); in  *)
(* every other case it returns no string (None) and the offset unchanged.  *)
C10_DecodeString ==
  pc = "done" =>
     /\ StringFits(data, offset) =>
          /\ ret.str # NoneStr
          /\ ret.next = offset + 2 + PrefixAt(data, offset)
          /\ utf8_valid(ContentAt(data, offset)) =>
               utf8_encode(ret.str) = ContentAt(data, offset)
     /\ ~StringFits(data, offset) => ret = [str |-> NoneStr, next |-> offset]
     /\ (data = <<0, 3, 97, 98, 99>> /\ offset = 0) =>
          ret = [str |-> <<97, 98, 99>>, next |-> 5]

\* the spec's example has been decoded
C10_Witness ==
  /\ pc = "done" /\ data = <<0, 3, 97, 98, 99>> /\ offset = 0
  /\ ret.str = <<97, 98, 99>> /\ ret.next = 5

\* a string is refused because the announced content is cut short
C10_WitnessInsufficient ==
  /\ pc = "done" /\ Len(data) - offset >= 2 /\ ~StringFits(data, offset)
  /\ ret.str = NoneStr

\* U+FFFD REPLACEMENT CHARACTER
ReplacementChar == 65533

\* the elements of a sequence
Range(f) == {f[i] : i \in DOMAIN f}

(* C11: decode_string never fails because of invalid UTF-8: when the       *)
(* length check passes and the L content bytes hold invalid UTF-8, a       *)
(* string is returned, and each invalid sequence appears in it as a        *)
(* replacement character (it is not dropped).                              *)
C11_InvalidReplaced ==
  (pc = "done" /\ StringFits(data, offset) /\ ~utf8_valid(ContentAt(data, offset))) =>
     /\ ret.str # NoneStr
     /\ ReplacementChar \in Range(ret.str)

\* what holds of the code: the call succeeds and the invalid bytes are
\* left out, no replacement character standing for them
C11_InvalidDropped ==
  (pc = "done" /\ StringFits(data, offset) /\ ~utf8_valid(ContentAt(data, offset))) =>
     /\ ret.str # NoneStr
     /\ ret.next = offset + 2 + PrefixAt(data, offset)
     /\ ReplacementChar \notin Range(ret.str)
     /\ Len(ret.str) < PrefixAt(data, offset)

\* 'a', a lone continuation byte, 'b' has been decoded to "ab"
C11_LoneByteDropped ==
  /\ pc = "done" /\ data = <<0, 3, 97, 169, 98>> /\ offset = 0
  /\ ret.str = <<97, 98>>

----------------------------------------------------------------------------
(* decode_packet called on a buffer.  A call that does not return leaves   *)
(* the caller in the call for ever (pc = "hung").                          *)

CallDecodePacket ==
  /\ pc = "start"
  /\ \E r \in {decode_packet(data)}, r2 \in {decode_packet(data2)} :
       IF r = HangPacket \/ r2 = HangPacket
       THEN pc' = "hung" /\ UNCHANGED <<ret, ret2>>
       ELSE pc' = "done" /\ ret' = r /\ ret2' = r2
  /\ UNCHANGED <<data, offset, arg, data2, mqtt_data, mux_offset, sink, topics>>
  /\ UNCHANGED <<capture_vars, app_vars>>

\* one well-formed packet of each of the 14 types (PUBLISH at QoS 0 and 1)
SamplePackets ==
  { mqtt_packet(1, 0, mqtt_string(<<77, 81, 84, 84>>) \o <<4, 2, 0, 60>>
                        \o mqtt_string(<<99>>)),
    mqtt_packet(2, 0, <<0, 0>>),
    mqtt_packet(3, 0, mqtt_string(<<97, 47, 98>>) \o <<104, 105>>),
    mqtt_packet(3, 2, mqtt_string(<<97>>) \o <<0, 7>> \o <<195, 169>>),
    mqtt_packet(4, 0, <<0, 7>>),
    mqtt_packet(5, 0, <<0, 8>>),
    mqtt_packet(6, 2, <<0, 8>>),
    mqtt_packet(7, 0, <<0, 8>>),
    mqtt_packet(8, 2, <<0, 1>> \o mqtt_string(<<97, 47, 98>>) \o <<1>>),
    mqtt_packet(9, 0, <<0, 1, 1>>),
    mqtt_packet(10, 2, <<0, 2>> \o mqtt_string(<<97>>)),
    mqtt_packet(11, 0, <<0, 2>>),
    mqtt_packet(12, 0, <<>>),
    mqtt_packet(13, 0, <<>>),
    mqtt_packet(14, 0, <<>>) }

(* SpecPacket: decode_packet on every sequence of MaxPacketRaw or fewer    *)
(* bytes of PacketBytes, on every prefix of a sample packet followed by    *)
(* one of Trailers, and on a first byte followed by four continuation      *)
(* bytes of a Remaining Length and one of Trailers.                        *)

MaxPacketRaw == 4

PacketBytes == {0, 1, 2, 16, 50, 97, 128, 130, 162, 255}

Trailers == {<<>>, <<0>>, <<192, 0>>, <<0, 1, 97>>}

PacketInit ==
  /\ pc = "start"
  /\ ret = NonePacket /\ ret2 = NonePacket
  /\ offset = 0
  /\ \/ \E raw \in SeqsUpTo(PacketBytes, MaxPacketRaw) :
          arg = <<>> /\ data = raw /\ data2 = <<>>
     \/ \E p \in SamplePackets, t \in Trailers : \E keep \in 0..Len(p) :
          /\ arg = p
          /\ data = SubSeq(p, 1, keep) \o t
          /\ data2 = p
     \/ \E b0 \in PacketBytes, cont \in [1..4 -> {128, 255}], t \in Trailers :
          arg = <<>> /\ data = <<b0>> \o cont \o t /\ data2 = <<>>
  /\ IdleMux

SpecPacket == PacketInit /\ [][CallDecodePacket]_vars

\* a decoded packet: a dict carrying a type code 1..14 and its name
IsPacket(r) ==
  /\ {"type", "type_code", "flags", "remaining_length"} \subseteq DOMAIN r
  /\ r.type_code \in 1..14
  /\ r.type = MQTT_PACKET_TYPES[r.type_code]

(* C4: decode_packet never raises: a call that returns yields a decoded    *)
(* packet or None, for every buffer (empty, truncated, malformed, valid).  *)
C4_NeverRaises ==
  /\ pc \in {"start", "done", "hung"}
  /\ pc = "done" => (ret # Raised /\ (ret = NonePacket \/ IsPacket(ret)))

\* the empty buffer has been decoded, to None
C4_Witness == pc = "done" /\ data = <<>> /\ ret = NonePacket

\* a truncated packet has been decoded, to a packet
C4_WitnessTruncated ==
  /\ pc = "done" /\ arg # <<>> /\ Len(data) < Len(arg) /\ IsPacket(ret)

(* C6: decoding the two bytes 0x10 0x00 (CONNECT, remaining length 0)      *)
(* fails: decode_packet returns no packet.                                 *)
C6_EmptyConnectFails ==
  (pc = "done" /\ data = <<16, 0>>) => ret = NonePacket

\* what the code returns for 0x10 0x00
C6_CodeReturnsPacket ==
  (pc = "done" /\ data = <<16, 0>>) =>
     ret = [type |-> "CONNECT", type_code |-> 1, flags |-> 0, remaining_length |-> 0,
            details |-> [protocol |-> NoneStr]]

\* the type code in the high nibble of the first byte
TypeNibble(d) == d[1] \div 16

\* bytes 1..4 of the buffer all carry the continuation bit
LengthOverFourBytes(d) == Len(d) >= 5 /\ \A i \in 2..5 : d[i] >= 128

(* C13: decode_packet returns None for every buffer shorter than 2 bytes,  *)
(* for every buffer whose first byte has high nibble 0 or 15, and for      *)
(* every buffer whose remaining-length field decodes as malformed; no      *)
(* packet is produced (and the call returns) in each of these cases.       *)
C13_RejectedBuffers ==
  ( /\ pc \in {"done", "hung"}
    /\ \/ Len(data) < 2
       \/ TypeNibble(data) \in {0, 15}
       \/ decode_remaining_length(data, 1).value = NoneInt
       \/ LengthOverFourBytes(data) )
  => (pc = "done" /\ ret = NonePacket)

\* a buffer of one byte with a valid type code has been refused
C13_WitnessShort == pc = "done" /\ data = <<16>> /\ ret = NonePacket

\* a first byte with high nibble 15 has been refused
C13_WitnessType ==
  /\ pc = "done" /\ Len(data) >= 2 /\ TypeNibble(data) = 15 /\ ret = NonePacket

\* a CONNECT whose Remaining Length runs over four bytes has been refused
C13_WitnessMalformed ==
  /\ pc = "done" /\ LengthOverFourBytes(data) /\ TypeNibble(data) = 1
  /\ decode_remaining_length(data, 1).value = NoneInt
  /\ ret = NonePacket

----------------------------------------------------------------------------
(* SpecPublish: decode_packet on PUBLISH packets with every flags nibble,  *)
(* a topic, a packet id or none, and a payload, whole or cut short.        *)

MaxPublishCut == 3

PublishTopics == {<<97>>, <<97, 47, 98>>}

PublishPayloads == {<<>>, <<104, 105>>, <<195>>, <<195, 169>>}

\* PUBLISH with a packet id when the QoS bits are not 0 (MQTT 3.1.1, 3.3)
publish_packet(a) ==
  mqtt_packet(3, a.flags,
              mqtt_string(a.topic)
                \o (IF (a.flags \div 2) % 4 > 0 THEN <<0, 7>> ELSE <<>>)
                \o a.payload)

PublishInit ==
  /\ pc = "start"
  /\ ret = NonePacket /\ ret2 = NonePacket
  /\ offset = 0
  /\ \E fl \in 0..15, t \in PublishTopics, pl \in PublishPayloads, cut \in 0..MaxPublishCut :
       /\ arg = [flags |-> fl, topic |-> t, payload |-> pl, cut |-> cut]
       /\ data = CutShort(publish_packet(arg), cut)
       /\ data2 = publish_packet(arg)
  /\ IdleMux

SpecPublish == PublishInit /\ [][CallDecodePacket]_vars

\* bit n of the flags nibble
NibbleBit(fl, n) == (fl \div (2 ^ n)) % 2

(* C15: for every PUBLISH fixed-header flags nibble the decoded body       *)
(* reports dup = bit 3, qos = bits 1-2 and retain = bit 0 of the nibble;   *)
(* when the QoS bits are 0b11 (nibble 0b0110 for one) decode_packet still  *)
(* returns a packet, reporting qos = 3.                                    *)
C15_PublishFlags ==
  (pc = "done" /\ Len(data) >= 2) =>
     /\ IsPacket(ret) /\ ret.type_code = 3 /\ ret.flags = arg.flags
     /\ "details" \in DOMAIN ret
     /\ ret.details.dup = (NibbleBit(arg.flags, 3) = 1)
     /\ ret.details.qos = 2 * NibbleBit(arg.flags, 2) + NibbleBit(arg.flags, 1)
     /\ ret.details.retain = (NibbleBit(arg.flags, 0) = 1)
     /\ (NibbleBit(arg.flags, 2) = 1 /\ NibbleBit(arg.flags, 1) = 1) => ret.details.qos = 3
     /\ ret2.details.qos = ret.details.qos /\ ret2.details.dup = ret.details.dup

\* the nibble 0b0110 has been decoded to a packet reporting qos 3
C15_Witness ==
  /\ pc = "done" /\ arg.flags = 6 /\ arg.cut = 0
  /\ IsPacket(ret) /\ ret.details.qos = 3
  /\ ~ret.details.dup /\ ~ret.details.retain
  /\ ret.details.packet_id = 7

----------------------------------------------------------------------------
(* SpecSubscribe: decode_packet on SUBSCRIBE packets made of a packet id   *)
(* and 1..MaxFilters topic filters (a non-empty topic string and a QoS     *)
(* byte each), ending at the end of the buffer or followed by a trailer.   *)

MaxFilters == 3

\* "a/b" at QoS 1, "a" at QoS 0, U+00E9 at QoS 2
SampleFilters ==
  { [topic |-> <<97, 47, 98>>, qos |-> 1],
    [topic |-> <<97>>, qos |-> 0],
    [topic |-> <<233>>, qos |-> 2] }

SubscribeIds == {1, 258, 65535}

SubscribeTrailers == {<<>>, <<0>>, <<0, 0, 1>>}

RECURSIVE filter_bytes(_)
\* the topic filters on the wire (MQTT 3.1.1, 3.8.3)
filter_bytes(filters) ==
  IF filters = <<>> THEN <<>>
  ELSE mqtt_string(utf8_encode(Head(filters).topic)) \o <<Head(filters).qos>>
         \o filter_bytes(Tail(filters))

subscribe_packet(a) ==
  mqtt_packet(8, 2, <<a.id \div 256, a.id % 256>> \o filter_bytes(a.filters) \o a.trailer)

SubscribeInit ==
  /\ pc = "start"
  /\ ret = NonePacket /\ ret2 = NonePacket
  /\ offset = 0
  /\ \E id \in SubscribeIds, n \in 1..MaxFilters, t \in SubscribeTrailers :
       \E filters \in [1..n -> SampleFilters] :
          /\ arg = [id |-> id, filters |-> filters, trailer |-> t]
          /\ data = subscribe_packet(arg)
          /\ data2 = <<>>
  /\ IdleMux

SpecSubscribe == SubscribeInit /\ [][CallDecodePacket]_vars

(* C16: a SUBSCRIBE body made of a 2-byte packet id followed by n >= 1     *)
(* topic filters, each a non-empty length-prefixed topic string and one    *)
(* QoS byte, together ending exactly at the end of the buffer, decodes to  *)
(* that packet id (big-endian) and the list of the n {topic, qos} pairs in *)
(* wire order; packet id 0x0001 and "a/b" at QoS 1 give                    *)
(* {packet_id: 1, topics: [{topic: "a/b", qos: 1}]}.                       *)
C16_SubscribeBody ==
  (pc = "done" /\ arg.trailer = <<>>) =>
     /\ IsPacket(ret) /\ ret.type_code = 8
     /\ ret.details = [packet_id |-> arg.id, topics |-> arg.filters]
     /\ data = <<130, 8, 0, 1, 0, 3, 97, 47, 98, 1>> =>
          ret.details = [packet_id |-> 1,
                         topics |-> <<[topic |-> <<97, 47, 98>>, qos |-> 1]>>]

\* the spec's example has been decoded
C16_Witness ==
  /\ pc = "done" /\ data = <<130, 8, 0, 1, 0, 3, 97, 47, 98, 1>>
  /\ ret.details = [packet_id |-> 1,
                    topics |-> <<[topic |-> <<97, 47, 98>>, qos |-> 1]>>]

\* three filters with a big-endian id have been decoded in wire order
C16_WitnessThree ==
  /\ pc = "done" /\ arg.trailer = <<>> /\ arg.id = 258 /\ Len(arg.filters) = 3
  /\ arg.filters[1] # arg.filters[3]
  /\ ret.details.packet_id = 258 /\ ret.details.topics = arg.filters

----------------------------------------------------------------------------
(* SpecConnect: decode_packet on CONNECT packets built field by field      *)
(* (protocol name "MQTT", level 4, every connect-flags byte, two keep      *)
(* alive values, client id "c", will topic "w", will message "m", username *)
(* "u" and a password, each present when its flag is set), cut short by    *)
(* 0..MaxCut bytes.  data2 is the same packet with another password of the *)
(* same length.                                                            *)

MaxCut == 16

KeepAlives == {<<0, 60>>, <<1, 2>>}

\* pairs of passwords of equal length
PasswordPairs == {<<<<112>>, <<113>>>>, <<<<112, 113>>, <<113, 112>>>>, <<<<>>, <<>>>>}

Bit(b) == IF b THEN 1 ELSE 0

\* MQTT 3.1.1, 3.1.2.3: the connect-flags byte
connect_flags_byte(a) ==
  128 * Bit(a.username) + 64 * Bit(a.password) + 32 * Bit(a.will_retain)
    + 8 * a.will_qos + 4 * Bit(a.will) + 2 * Bit(a.clean_session) + a.reserved

\* MQTT 3.1.1, 3.1: a CONNECT packet with the password bytes pw
connect_packet(a, pw) ==
  mqtt_packet(1, 0,
    mqtt_string(<<77, 81, 84, 84>>) \o <<4, connect_flags_byte(a)>> \o a.keep
      \o mqtt_string(<<99>>)
      \o (IF a.will THEN mqtt_string(<<119>>) \o mqtt_string(<<109>>) ELSE <<>>)
      \o (IF a.username THEN mqtt_string(<<117>>) ELSE <<>>)
      \o (IF a.password THEN mqtt_string(pw) ELSE <<>>))

ConnectInit ==
  /\ pc = "start"
  /\ ret = NonePacket /\ ret2 = NonePacket
  /\ offset = 0
  /\ \E a \in [username : BOOLEAN, password : BOOLEAN, will_retain : BOOLEAN,
               will_qos : 0..3, will : BOOLEAN, clean_session : BOOLEAN,
               reserved : 0..1, keep : KeepAlives, pws : PasswordPairs,
               cut : 0..MaxCut] :
       /\ arg = a
       /\ data = CutShort(connect_packet(a, a.pws[1]), a.cut)
       /\ data2 = CutShort(connect_packet(a, a.pws[2]), a.cut)
  /\ IdleMux

SpecConnect == ConnectInit /\ [][CallDecodePacket]_vars

\* the fixed header (2 bytes), the protocol name (6) and level, flags and
\* keep alive (4) are all in the buffer
HoldsVariableHeader == Len(data) >= 12

\* the packet has a CONNECT body in which the flags were decoded
HasConnectFlags(r) ==
  /\ IsPacket(r) /\ r.type_code = 1 /\ "details" \in DOMAIN r
  /\ "password" \in DOMAIN r.details

(* C7: the raw password bytes never appear in the decoded packet: whenever *)
(* the password flag is set the recorded password value is the fixed       *)
(* placeholder, and two CONNECT buffers that differ only in the content of *)
(* the password bytes (same lengths) decode to identical packets.          *)
C7_PasswordRedacted ==
  pc = "done" =>
     /\ (HasConnectFlags(ret) /\ ret.details.password) =>
           /\ "password_val" \in DOMAIN ret.details
           /\ ret.details.password_val = HiddenPassword
     /\ (HoldsVariableHeader /\ arg.password) =>
           (HasConnectFlags(ret) /\ ret.details.password)
     /\ ret = ret2

\* two buffers with different password bytes have been decoded, the
\* password flag set and the whole password in the buffer
C7_Witness ==
  /\ pc = "done" /\ arg.password /\ arg.cut = 0 /\ data # data2
  /\ arg.pws[1] = <<112, 113>>
  /\ ret.details.password_val = HiddenPassword
  /\ ret = ret2

\* the connect-flags byte of the packet is 0xCE and the flags were decoded
FlagsByteCE == pc = "done" /\ connect_flags_byte(arg) = 206 /\ HoldsVariableHeader

(* C8 as stated: a CONNECT packet whose connect-flags byte is 0xCE decodes *)
(* to username = true, password = true, will_retain = true, will = false   *)
(* and clean_session = true.                                               *)
C8_Original ==
  FlagsByteCE =>
     /\ HasConnectFlags(ret)
     /\ ret.details.username /\ ret.details.password
     /\ ret.details.will_retain /\ ~ret.details.will
     /\ ret.details.clean_session

(* C8 amended: a CONNECT packet whose connect-flags byte is 0xCE           *)
(* (1100 1110) decodes to username = true, password = true,                *)
(* will_retain = false, will = true (will_qos = 1) and                     *)
(* clean_session = true; the byte that decodes to username, password,      *)
(* will_retain and clean_session true with will false is 0xE2.             *)
C8_Amended ==
  /\ FlagsByteCE =>
       /\ HasConnectFlags(ret)
       /\ ret.details.username /\ ret.details.password
       /\ ~ret.details.will_retain /\ ret.details.will
       /\ ret.details.will_qos = 1
       /\ ret.details.clean_session
  /\ (pc = "done" /\ connect_flags_byte(arg) = 226 /\ HoldsVariableHeader) =>
       /\ HasConnectFlags(ret)
       /\ ret.details.username /\ ret.details.password
       /\ ret.details.will_retain /\ ~ret.details.will
       /\ ret.details.clean_session

\* a whole CONNECT packet with flags byte 0xCE has been decoded
C8_Witness ==
  /\ FlagsByteCE /\ arg.cut = 0
  /\ ret.details.will /\ ~ret.details.will_retain

(* C9: for every connect-flags byte of a CONNECT packet whose buffer holds *)
(* the whole variable header, the decoded body has clean_session = bit 1,  *)
(* will = bit 2, will_qos = bits 3-4 (0..3), will_retain = bit 5, password *)
(* flag = bit 6, username flag = bit 7, and keep_alive is the following    *)
(* two bytes read big-endian.                                              *)
C9_ConnectFlags ==
  (pc = "done" /\ HoldsVariableHeader) =>
     /\ HasConnectFlags(ret)
     /\ ret.details.clean_session = arg.clean_session
     /\ ret.details.will = arg.will
     /\ ret.details.will_qos = arg.will_qos /\ ret.details.will_qos \in 0..3
     /\ ret.details.will_retain = arg.will_retain
     /\ ret.details.password = arg.password
     /\ ret.details.username = arg.username
     /\ ret.details.keep_alive = 256 * arg.keep[1] + arg.keep[2]
     /\ ret.details.level = 4
     /\ ret.details.protocol = <<77, 81, 84, 84>>

\* a packet cut inside its payload, with will QoS 3 and keep alive 0x0102
C9_Witness ==
  /\ pc = "done" /\ HoldsVariableHeader /\ arg.cut > 0
  /\ arg.will_qos = 3 /\ arg.reserved = 1 /\ arg.keep = <<1, 2>>
  /\ ret.details.will_qos = 3 /\ ret.details.keep_alive = 258

----------------------------------------------------------------------------
(* capture_packets: the multiplexer loop over one TCP payload (lines       *)
(* 398-434).  One iteration is one step, except that the UNSUBSCRIBE topic *)
(* loop of decode_packet (lines 259-262), which may not end, is taken one  *)
(* loop test and one loop body at a time.                                  *)

RECURSIVE mux_length_loop(_, _, _, _, _)
\* lines 419-431: the loop over the remaining-length bytes, then packet_len
mux_length_loop(d, i, rem_len, multiplier, packet_len) ==
  IF i < Len(d)
  THEN LET byte == At(d, i)
           rem2 == rem_len + (byte % 128) * multiplier
       IN  IF byte \div 128 = 0 THEN packet_len + 1 + rem2
           ELSE mux_length_loop(d, i + 1, rem2, multiplier * 128, packet_len + 1)
  ELSE packet_len + rem_len

\* lines 416-431: the encoded length of the packet at off
mux_packet_len(d, off) == mux_length_loop(d, off + 1, 0, 1, 1)

\* lines 400-408: the loop goes on to decode_packet
\* the cursor of an earlier payload, kept
mux_offset_retained == mux_offset

\* line 399: `offset = 0`, the cursor with which every payload is entered
mux_offset_initial == 0

\* lines 398-434 as a function of the payload alone: the packets the loop
\* prints from offset off on, each with its offset
RECURSIVE segment_packets(_, _)
segment_packets(d, off) ==
  IF ~(off < Len(d)) \/ off + 2 > Len(d) THEN <<>>
  ELSE IF (At(d, off) \div 16) % 16 < 1 \/ (At(d, off) \div 16) % 16 > 14 THEN <<>>
  ELSE Bind(decode_packet(SliceFrom(d, off)), LAMBDA packet :
         IF packet = NonePacket THEN <<>>
         ELSE <<[packet |-> packet, at |-> off]>>
                \o segment_packets(d, off + mux_packet_len(d, off)))

MuxLoopEnters ==
  /\ mux_offset < Len(mqtt_data)
  /\ ~(mux_offset + 2 > Len(mqtt_data))
  /\ LET packet_type == (At(mqtt_data, mux_offset) \div 16) % 16
     IN  ~(packet_type < 1 \/ packet_type > 14)

\* decode_packet(d) reaches the UNSUBSCRIBE topic loop (lines 205-219, 254-258)
ReachesUnsubscribeLoop(d) ==
  /\ Len(d) >= 2
  /\ (At(d, 0) \div 16) % 16 = 10
  /\ decode_remaining_length(d, 1).value # NoneInt
  /\ Len(d) >= decode_remaining_length(d, 1).next + 2

\* the loop going on one byte further when decode_packet returned None
MuxForward_resync(packet) ==
  IF packet # NonePacket
  THEN /\ sink' = Append(sink, [packet |-> packet, at |-> mux_offset,
                                direction |-> direction,
                                record |-> Len(processed) + 1])
       /\ mux_offset' = mux_offset + mux_packet_len(mqtt_data, mux_offset)
       /\ pc' = "mux"
  ELSE /\ mux_offset' = mux_offset + 1
       /\ pc' = "mux"
       /\ UNCHANGED sink

\* lines 412-432: a decoded packet is printed and the offset moved past it
MuxForward(packet) ==
  IF packet # NonePacket
  THEN /\ sink' = Append(sink, [packet |-> packet, at |-> mux_offset,
                                direction |-> direction,
                                record |-> Len(processed) + 1])
       /\ mux_offset' = mux_offset + mux_packet_len(mqtt_data, mux_offset)
       /\ pc' = "mux"
  ELSE /\ pc' = "mux_done"
       /\ UNCHANGED <<sink, mux_offset>>

\* the loop ends: offset at the end, fewer than 2 bytes, or no MQTT type
MuxExit ==
  /\ pc = "mux"
  /\ ~MuxLoopEnters
  /\ pc' = "mux_done"
  /\ UNCHANGED <<data, offset, arg, ret, data2, ret2, mqtt_data, mux_offset, sink, topics>>
  /\ UNCHANGED <<capture_vars, app_vars>>

\* one iteration whose decode_packet call is not an UNSUBSCRIBE with topics
MuxDecode ==
  /\ pc = "mux"
  /\ MuxLoopEnters
  /\ ~ReachesUnsubscribeLoop(SliceFrom(mqtt_data, mux_offset))
  /\ \E packet \in {decode_packet(SliceFrom(mqtt_data, mux_offset))} :
       MuxForward(packet)
  /\ UNCHANGED <<data, offset, arg, ret, data2, ret2, mqtt_data, topics>>
  /\ UNCHANGED <<capture_vars, app_vars>>

\* decode_packet is called and runs up to the UNSUBSCRIBE topic loop
MuxCallUnsubscribe ==
  /\ pc = "mux"
  /\ MuxLoopEnters
  /\ ReachesUnsubscribeLoop(SliceFrom(mqtt_data, mux_offset))
  /\ LET d == SliceFrom(mqtt_data, mux_offset)
         rl == decode_remaining_length(d, 1)
     IN  /\ data' = d
         /\ ret' = packet_header(10, At(d, 0) % 16, rl.value)
                     @@ [packet_id |-> unpack_H(d, rl.next)]
         /\ offset' = rl.next + 2
         /\ topics' = <<>>
  /\ pc' = "unsub_test"
  /\ UNCHANGED <<arg, data2, ret2, mqtt_data, mux_offset, sink>>
  /\ UNCHANGED <<capture_vars, app_vars>>

\* line 259: `while offset < len(data)`; when false decode_packet returns
UnsubscribeTest ==
  /\ pc = "unsub_test"
  /\ IF offset < Len(data)
     THEN /\ pc' = "unsub_body"
          /\ UNCHANGED <<sink, mux_offset>>
     ELSE MuxForward(ret @@ [topics |-> topics])
  /\ UNCHANGED <<data, offset, arg, ret, data2, ret2, mqtt_data, topics>>
  /\ UNCHANGED <<capture_vars, app_vars>>

\* lines 260-262: the loop body
UnsubscribeBody ==
  /\ pc = "unsub_body"
  /\ LET t == decode_string(data, offset)
     IN  /\ offset' = t.next
         /\ topics' = IF Truthy(t.str) THEN Append(topics, t.str) ELSE topics
  /\ pc' = "unsub_test"
  /\ UNCHANGED <<data, arg, ret, data2, ret2, mqtt_data, mux_offset, sink>>
  /\ UNCHANGED <<capture_vars, app_vars>>

MaxMuxRaw == 3

\* bytes at which the loop stops: no packet type (nibble 0, nibble 15), a
\* remaining length of five continuation bytes
StopBytes == {<<0>>, <<240, 0>>, <<16, 255, 255, 255, 255, 255>>}

\* the payloads: two sample packets back to back, a prefix of a sample
\* packet followed by one of Trailers, MaxMuxRaw or fewer bytes of
\* PacketBytes, a sample packet followed by StopBytes and a sample packet
MuxInputs ==
  {[kind |-> "pair", first |-> p1, second |-> p2, payload |-> p1 \o p2] :
      p1 \in SamplePackets, p2 \in SamplePackets}
  \cup UNION {{[kind |-> "cut", first |-> p, second |-> t,
                payload |-> SubSeq(p, 1, keep) \o t] : keep \in 0..Len(p)} :
                 p \in SamplePackets, t \in Trailers}
  \cup {[kind |-> "raw", first |-> raw, second |-> <<>>, payload |-> raw] :
          raw \in SeqsUpTo(PacketBytes, MaxMuxRaw)}
  \cup UNION {{[kind |-> "stop", first |-> p1, second |-> p2,
                payload |-> p1 \o stop \o p2] : stop \in StopBytes} :
                 p1 \in SamplePackets, p2 \in {mqtt_packet(2, 0, <<0, 0>>), <<192, 0>>}}

\* lines 386-399: a payload that is not empty is walked from offset 0
MuxBegin ==
  /\ pc = "idle"
  /\ \E in \in MuxInputs :
       /\ Len(in.payload) # 0
       /\ arg' = in
       /\ mqtt_data' = in.payload
  /\ mux_offset' = mux_offset_initial
  /\ pc' = "mux"
  /\ UNCHANGED <<data, offset, ret, data2, ret2, sink, topics>>
  /\ UNCHANGED <<capture_vars, app_vars>>

\* the steps of the loop on a payload
MuxStep ==
  \/ MuxExit
  \/ MuxDecode
  \/ MuxCallUnsubscribe
  \/ UnsubscribeTest
  \/ UnsubscribeBody

MuxNext == MuxBegin \/ MuxStep

(* SpecMux: the multiplexer loop on one payload.                           *)

MuxInit ==
  /\ pc = "idle"
  /\ arg = [kind |-> "none", first |-> <<>>, second |-> <<>>, payload |-> <<>>]
  /\ mqtt_data = <<>> /\ mux_offset = 0 /\ sink = <<>>
  /\ data = <<>> /\ offset = 0 /\ topics = <<>> /\ ret = NonePacket
  /\ IdleCall

SpecMux == MuxInit /\ [][MuxNext]_vars

\* the loop runs in one thread that nothing suspends: a step of the loop
\* that can be taken is taken
SpecMuxFair == SpecMux /\ WF_vars(MuxStep)

\* the step-wise UNSUBSCRIBE loop and the operator decode_packet agree
MuxAgreesWithDecodePacket ==
  /\ (pc = "unsub_test" /\ ~(offset < Len(data)) /\ decode_packet(data) # HangPacket) =>
        decode_packet(data) = ret @@ [topics |-> topics]
  /\ (pc \in {"unsub_test", "unsub_body"} /\ offset = decode_remaining_length(data, 1).next + 2) =>
        (decode_packet(data) = HangPacket
           <=> unsubscribe_topics(data, offset, <<>>).hang)

(* C3: for every payload buffer the multiplexer loop, with every           *)
(* decode_packet call it makes, terminates (after finitely many packets),  *)
(* also when an UNSUBSCRIBE packet id is followed by bytes that are not a  *)
(* complete length-prefixed topic string.                                  *)
C3_MuxTerminates == (pc = "mux") ~> (pc = "mux_done")

\* the state in which the loop no longer moves: the topic at offset cannot
\* be decoded, so the body leaves offset and topics as they are
C3_StuckInUnsubscribeLoop ==
  /\ pc = "unsub_body"
  /\ decode_string(data, offset) = [str |-> NoneStr, next |-> offset]

(* C5: on two valid packets back to back the multiplexer yields exactly    *)
(* two packets, in wire order, the second decoded from the offset equal to *)
(* the first packet's total encoded length.                                *)
C5_TwoPacketsYielded ==
  (pc = "mux" /\ arg.kind = "pair") ~>
     ( /\ pc = "mux_done"
       /\ Len(sink) = 2
       /\ sink[1].at = 0
       /\ sink[2].at = Len(arg.first) /\ sink[2].packet = decode_packet(arg.second) )

\* what holds of the code: whenever the loop ends on two packets back to
\* back, two packets were yielded, the second from the first one's length
C5_TwoPacketsWhenDone ==
  (arg.kind = "pair" /\ pc = "mux_done") =>
     /\ Len(sink) = 2
     /\ sink[1].at = 0
     /\ sink[2].at = Len(arg.first) /\ sink[2].packet = decode_packet(arg.second)

----------------------------------------------------------------------------
(* capture_packets: the capture loop.  The capture process writes a pcap   *)
(* stream to its stdout: a 24-byte global header, then records of a        *)
(* 16-byte header and a frame.  pc is "launch" before Popen, "read_pcap",  *)
(* "read_record" and "extract" in the loop, the multiplexer's positions,   *)
(* "interrupted" and "error" in the two handlers, "finally", "ended".      *)

\* proc.stdout.read(n): the next n bytes, fewer when the stream ends
stream_read(s, pos, n) == SubSeq(s, pos + 1, Min(pos + n, Len(s)))

\* struct.unpack('I', pkt_header[8:12])[0], on a little-endian build
unpack_I(h) == h[9] + 256 * h[10] + 65536 * h[11] + 16777216 * h[12]

\* the body read is not compared with the announced length
read_record_unchecked(s, pos) ==
  LET h == stream_read(s, pos, 16)
  IN  IF Len(h) < 16
      THEN [short |-> TRUE, frame |-> <<>>, next |-> pos + Len(h)]
      ELSE [short |-> FALSE, frame |-> stream_read(s, pos + 16, unpack_I(h)),
            next |-> pos + 16 + Len(stream_read(s, pos + 16, unpack_I(h)))]

\* lines 353-363: one record read at pos; short when a read returns fewer
\* bytes than asked for
read_record(s, pos) ==
  LET h == stream_read(s, pos, 16)
  IN  IF Len(h) < 16
      THEN [short |-> TRUE, frame |-> <<>>, next |-> pos + Len(h)]
      ELSE LET pkt_len == unpack_I(h)
               body == stream_read(s, pos + 16, pkt_len)
           IN  IF Len(body) < pkt_len
               THEN [short |-> TRUE, frame |-> <<>>, next |-> pos + 16 + Len(body)]
               ELSE [short |-> FALSE, frame |-> body, next |-> pos + 16 + pkt_len]

\* line 370: (ip_header[0] & 0x0F) * 4
ip_header_len(f) == (At(f, 14) % 16) * 4

\* line 373
tcp_start(f) == 14 + ip_header_len(f)

\* line 374: pkt_data[tcp_start:tcp_start + 20]
tcp_header(f) == Slice(f, tcp_start(f), tcp_start(f) + 20)

\* line 375: ((tcp_header[12] >> 4) & 0x0F) * 4
tcp_header_len(f) == ((At(tcp_header(f), 12) \div 16) % 16) * 4

\* lines 378-379
src_port(f) == unpack_H(tcp_header(f), 0)
dst_port(f) == unpack_H(tcp_header(f), 2)

\* the data offset taken from the low nibble of TCP header byte 12
mqtt_start_low_nibble(f) == tcp_start(f) + (At(tcp_header(f), 12) % 16) * 4

\* line 385
mqtt_start(f) == tcp_start(f) + tcp_header_len(f)

\* an index of lines 370, 375 or 382 is out of range (IndexError)
extraction_raises(f) == Len(f) < 15 \/ Len(tcp_header(f)) < 14

\* the label decided by the destination port
direction_label_dst(f, p) ==
  IF dst_port(f) = p THEN "Broker->Client:" ELSE "Client->Broker:"

\* lines 393-396
direction_label(f, p) ==
  IF src_port(f) = p THEN "Broker->Client:" ELSE "Client->Broker:"

\* decode_packet(d) enters the try of lines 170-172 (a PUBLISH body)
ReachesPublishTry(d) ==
  /\ Len(d) >= 2
  /\ (At(d, 0) \div 16) % 16 = 3
  /\ decode_remaining_length(d, 1).value # NoneInt

\* what decode_packet returns when an interrupt is raised inside that try
decode_packet_interrupt_caught(d) ==
  Bind(decode_remaining_length(d, 1), LAMBDA rl :
    packet_header(3, At(d, 0) % 16, rl.value)
      @@ [details |-> publish_body(d, rl.next, At(d, 0) % 16, TRUE)])

LoopPositions ==
  {"read_pcap", "read_record", "extract", "mux", "unsub_test", "unsub_body", "mux_done"}

\* line 346: the capture process is started
Launch ==
  /\ pc = "launch"
  /\ proc' = "running"
  /\ pc' = "read_pcap"
  /\ UNCHANGED <<decoder_vars, app_vars>>
  /\ UNCHANGED <<data, offset, arg, ret, data2, ret2, mqtt_data, mux_offset, sink, topics>>
  /\ UNCHANGED <<stream, stream_pos, pkt_data, port, direction, reported, processed,
                 interrupted>>

\* line 346 raises (no tcpdump, no permission): proc is never bound
LaunchFails ==
  /\ pc = "launch"
  /\ pc' = "error"
  /\ UNCHANGED <<data, offset, arg, ret, data2, ret2, mqtt_data, mux_offset, sink, topics>>
  /\ UNCHANGED <<capture_vars, app_vars>>

\* line 349: the global header is read, its length not looked at
ReadPcapHeader ==
  /\ pc = "read_pcap"
  /\ stream_pos' = stream_pos + Len(stream_read(stream, stream_pos, 24))
  /\ pc' = "read_record"
  /\ UNCHANGED <<decoder_vars, app_vars>>
  /\ UNCHANGED <<data, offset, arg, ret, data2, ret2, mqtt_data, mux_offset, sink, topics>>
  /\ UNCHANGED <<stream, proc, pkt_data, port, direction, reported, processed, interrupted>>

\* lines 351-363: a record is read; a short read leaves the loop (break)
ReadRecord ==
  /\ pc = "read_record"
  /\ \E r \in {read_record(stream, stream_pos)} :
       /\ stream_pos' = r.next
       /\ IF r.short
          THEN pc' = "finally" /\ UNCHANGED pkt_data
          ELSE pc' = "extract" /\ pkt_data' = r.frame
  /\ UNCHANGED <<decoder_vars, app_vars>>
  /\ UNCHANGED <<data, offset, arg, ret, data2, ret2, mqtt_data, mux_offset, sink, topics>>
  /\ UNCHANGED <<stream, proc, port, direction, reported, processed, interrupted>>

\* lines 365-399: the headers are stripped; an IndexError goes to the
\* `except Exception` handler, an empty payload to the next record
Extract ==
  /\ pc = "extract"
  /\ IF extraction_raises(pkt_data)
     THEN /\ pc' = "error"
          /\ UNCHANGED <<mqtt_data, mux_offset, direction, processed>>
     ELSE \E payload \in {SliceFrom(pkt_data, mqtt_start(pkt_data))} :
            /\ mqtt_data' = payload
            /\ IF Len(payload) = 0
               THEN /\ pc' = "read_record"
                    /\ processed' = Append(processed, pkt_data)
                    /\ UNCHANGED <<mux_offset, direction>>
               ELSE /\ direction' = direction_label(pkt_data, port)
                    /\ mux_offset' = mux_offset_initial
                    /\ pc' = "mux"
                    /\ UNCHANGED processed
  /\ UNCHANGED <<decoder_vars, app_vars>>
  /\ UNCHANGED <<data, offset, arg, ret, data2, ret2, sink, topics>>
  /\ UNCHANGED <<stream, stream_pos, proc, pkt_data, port, reported, interrupted>>

\* the multiplexer loop has ended: back to `while True` (line 351)
RecordDone ==
  /\ pc = "mux_done"
  /\ processed' = Append(processed, pkt_data)
  /\ pc' = "read_record"
  /\ UNCHANGED <<decoder_vars, app_vars>>
  /\ UNCHANGED <<data, offset, arg, ret, data2, ret2, mqtt_data, mux_offset, sink, topics>>
  /\ UNCHANGED <<stream, stream_pos, proc, pkt_data, port, direction, reported, interrupted>>

\* an interrupt signal is delivered while the loop runs: KeyboardInterrupt
\* leaves the try block for the handler of line 436
Interrupt ==
  /\ pc \in LoopPositions
  /\ ~interrupted
  /\ interrupted' = TRUE
  /\ pc' = "interrupted"
  /\ UNCHANGED <<decoder_vars, app_vars>>
  /\ UNCHANGED <<data, offset, arg, ret, data2, ret2, mqtt_data, mux_offset, sink, topics>>
  /\ UNCHANGED <<stream, stream_pos, proc, pkt_data, port, direction, reported, processed>>

\* an interrupt signal is delivered while decode_packet is in the try of
\* lines 170-172: the bare `except:` of line 173 catches KeyboardInterrupt,
\* the payload is reported in hex and the loop iteration goes on
InterruptInPublishTry ==
  /\ pc = "mux"
  /\ ~interrupted
  /\ MuxLoopEnters
  /\ ReachesPublishTry(SliceFrom(mqtt_data, mux_offset))
  /\ interrupted' = TRUE
  /\ \E packet \in {decode_packet_interrupt_caught(SliceFrom(mqtt_data, mux_offset))} :
       MuxForward(packet)
  /\ UNCHANGED <<decoder_vars, app_vars>>
  /\ UNCHANGED <<data, offset, arg, ret, data2, ret2, mqtt_data, topics>>
  /\ UNCHANGED <<stream, stream_pos, proc, pkt_data, port, direction, reported, processed>>

\* lines 436-438
HandleInterrupt ==
  /\ pc = "interrupted"
  /\ reported' = "stopped"
  /\ pc' = "finally"
  /\ UNCHANGED <<decoder_vars, app_vars>>
  /\ UNCHANGED <<data, offset, arg, ret, data2, ret2, mqtt_data, mux_offset, sink, topics>>
  /\ UNCHANGED <<stream, stream_pos, proc, pkt_data, port, direction, processed, interrupted>>

\* lines 439-442
HandleError ==
  /\ pc = "error"
  /\ reported' = "error"
  /\ pc' = "finally"
  /\ UNCHANGED <<decoder_vars, app_vars>>
  /\ UNCHANGED <<data, offset, arg, ret, data2, ret2, mqtt_data, mux_offset, sink, topics>>
  /\ UNCHANGED <<stream, stream_pos, proc, pkt_data, port, direction, processed, interrupted>>

\* lines 443-445: proc.terminate() if proc was bound
Finally ==
  /\ pc = "finally"
  /\ proc' = IF proc = "running" THEN "terminated" ELSE proc
  /\ pc' = "ended"
  /\ UNCHANGED <<decoder_vars, app_vars>>
  /\ UNCHANGED <<data, offset, arg, ret, data2, ret2, mqtt_data, mux_offset, sink, topics>>
  /\ UNCHANGED <<stream, stream_pos, pkt_data, port, direction, reported, processed,
                 interrupted>>

CaptureNext ==
  \/ Launch
  \/ LaunchFails
  \/ ReadPcapHeader
  \/ ReadRecord
  \/ Extract
  \/ MuxStep
  \/ RecordDone
  \/ Interrupt
  \/ InterruptInPublishTry
  \/ HandleInterrupt
  \/ HandleError
  \/ Finally

(* SpecCapture: capture_packets on pcap streams of MaxRecords or fewer     *)
(* records whose frames are taken from SampleFrames, ending cleanly, in a  *)
(* cut record header or in a cut record body; an interrupt signal may      *)
(* arrive at any position of the loop.                                     *)

MaxRecords == 2

Zeros(n) == [i \in 1..n |-> 0]

\* a 32-bit little-endian field
le32(n) == <<n % 256, (n \div 256) % 256, (n \div 65536) % 256, n \div 16777216>>

\* Ethernet II, IPv4 (header of ihl words) and TCP (header of doff words)
\* around a payload
tcp_frame(ihl, doff, sp, dp, payload) ==
  Zeros(14)
    \o <<64 + ihl>> \o Zeros(4 * ihl - 1)
    \o <<sp \div 256, sp % 256, dp \div 256, dp % 256>> \o Zeros(8)
    \o <<doff * 16, 24>> \o Zeros(4 * doff - 14)
    \o payload

\* a pcap record: 16-byte header (the captured length at bytes 8..12), frame
pcap_record(frame) == Zeros(8) \o le32(Len(frame)) \o le32(Len(frame)) \o frame

RECURSIVE pcap_records(_)
pcap_records(frames) ==
  IF frames = <<>> THEN <<>>
  ELSE pcap_record(Head(frames)) \o pcap_records(Tail(frames))

\* the 24-byte global header, the records, and what is left of a last record
pcap_stream(a) == Zeros(24) \o pcap_records(a.frames) \o a.tail

ClientPort == 50000

PingReq == <<192, 0>>

\* PINGREQ under every pairing of the shortest and longest header lengths
PingFrames ==
  { tcp_frame(5, 5, DefaultPort, ClientPort, PingReq),
    tcp_frame(5, 15, ClientPort, DefaultPort, PingReq),
    tcp_frame(15, 5, ClientPort, DefaultPort, PingReq),
    tcp_frame(15, 15, DefaultPort, ClientPort, PingReq) }

\* CONNACK and PINGRESP in one segment; a PUBLISH; a bare ACK; an
\* UNSUBSCRIBE followed by a PINGREQ
PayloadFrames ==
  { tcp_frame(5, 5, DefaultPort, ClientPort, <<32, 2, 0, 0, 208, 0>>),
    tcp_frame(5, 5, ClientPort, DefaultPort,
              mqtt_packet(3, 0, mqtt_string(<<97>>) \o <<104, 105>>)),
    tcp_frame(5, 5, DefaultPort, ClientPort, <<>>),
    tcp_frame(5, 5, ClientPort, DefaultPort,
              mqtt_packet(10, 2, <<0, 2>> \o mqtt_string(<<97>>)) \o PingReq) }

\* frames too short for their headers: empty, Ethernet only, cut in the TCP header
MalformedFrames ==
  { <<>>, Zeros(14), CutShort(tcp_frame(5, 5, DefaultPort, ClientPort, PingReq), 10) }

SampleFrames == PingFrames \cup PayloadFrames \cup MalformedFrames

\* the end of the stream: clean, inside a record header, inside a record body
StreamTails ==
  { <<>>, Zeros(5), Zeros(8) \o le32(56) \o le32(56) \o Zeros(3) }

CaptureInit ==
  /\ pc = "launch"
  /\ \E n \in 0..MaxRecords, tail \in StreamTails : \E frames \in [1..n -> SampleFrames] :
       /\ arg = [frames |-> frames, tail |-> tail]
       /\ stream = pcap_stream(arg)
  /\ stream_pos = 0 /\ proc = "none" /\ pkt_data = <<>>
  /\ port = DefaultPort /\ direction = "" /\ reported = "none"
  /\ processed = <<>> /\ interrupted = FALSE
  /\ packet_queue = <<>> /\ tcp_stream = <<>>
  /\ data = <<>> /\ offset = 0 /\ ret = NonePacket /\ data2 = <<>> /\ ret2 = NonePacket
  /\ mqtt_data = <<>> /\ mux_offset = 0 /\ sink = <<>> /\ topics = <<>>
  /\ IdleApp

SpecCapture == CaptureInit /\ [][CaptureNext]_vars

\* the byte at the Python index i of a frame
FrameByte(f, i) == f[i + 1]

\* the frame is one of those too short for the headers it should hold
FrameMalformed(f) == Len(f) < 14 + 20 + 14

(* C14: a capture record whose frame is malformed for header extraction    *)
(* (shorter than its Ethernet, IP and TCP headers, or of length zero) does *)
(* not stop the capture loop: no packet is forwarded for that record and   *)
(* the loop goes on to read the following records.                         *)
C14_MalformedFrameSkipped ==
  [][ (pc = "extract" /\ FrameMalformed(pkt_data) /\ ~interrupted')
        => (pc' = "read_record" /\ sink' = sink) ]_vars

\* what holds of the code: the malformed frame raises, the `except
\* Exception` handler reports an error and the loop has ended, the records
\* after it unread
C14_MalformedFrameEndsLoop ==
  [][ (pc = "extract" /\ FrameMalformed(pkt_data) /\ ~interrupted')
        => (pc' = "error" /\ sink' = sink) ]_vars

\* an error has been reported for an empty frame with a record left unread
C14_LoopStoppedByFrame ==
  /\ pc = "ended" /\ reported = "error" /\ ~interrupted
  /\ Len(arg.frames) = 2 /\ arg.frames[1] = <<>> /\ arg.frames[2] \in PingFrames
  /\ processed = <<>> /\ sink = <<>>

\* 14 + 4*(frame[14] & 0x0F) + 4*(high nibble of TCP header byte 12)
PayloadOffset(f) ==
  14 + 4 * (FrameByte(f, 14) % 16)
     + 4 * (FrameByte(f, 14 + 4 * (FrameByte(f, 14) % 16) + 12) \div 16)

\* the packets forwarded from the record being processed
OfThisRecord == {i \in 1..Len(sink) : sink[i].record = Len(processed) + 1}

(* C17: the MQTT payload handed to the multiplexer is the frame's bytes    *)
(* from offset 14 + 4*(frame[14] & 0x0F) + 4*(high nibble of TCP header    *)
(* byte 12) to the end of the frame, so that a frame (of any valid header  *)
(* lengths) whose TCP payload is 0xC0 0x00 is decoded to exactly one       *)
(* packet: PINGREQ, type_code 12, remaining_length 0.                      *)
C17_PayloadExtracted ==
  /\ pc \in {"mux", "unsub_test", "unsub_body", "mux_done"} =>
        mqtt_data = SubSeq(pkt_data, PayloadOffset(pkt_data) + 1, Len(pkt_data))
  /\ (pc = "mux_done" /\ pkt_data \in PingFrames) =>
        /\ mqtt_data = PingReq
        /\ Cardinality(OfThisRecord) = 1
        /\ \A i \in OfThisRecord :
             /\ sink[i].at = 0
             /\ sink[i].packet = [type |-> "PINGREQ", type_code |-> 12, flags |-> 0,
                                  remaining_length |-> 0]

\* a PINGREQ behind a 60-byte IP header and a 60-byte TCP header has been
\* decoded, as the second record of the stream
C17_Witness ==
  /\ pc = "mux_done" /\ Len(processed) = 1
  /\ pkt_data = tcp_frame(15, 15, DefaultPort, ClientPort, PingReq)
  /\ PayloadOffset(pkt_data) = 134
  /\ Cardinality(OfThisRecord) = 1
  /\ sink[Len(sink)].packet.type = "PINGREQ"

\* the big-endian first 16-bit field of the TCP header
SourcePort(f) ==
  FrameByte(f, 14 + 4 * (FrameByte(f, 14) % 16)) * 256
    + FrameByte(f, 14 + 4 * (FrameByte(f, 14) % 16) + 1)

(* C18: every packet forwarded from one capture record carries the same    *)
(* direction label: broker-to-client exactly when the TCP source port      *)
(* equals the observed port, client-to-broker otherwise (also when only    *)
(* the destination port matches).                                          *)
C18_DirectionLabel ==
  \A i \in 1..Len(sink) :
     /\ sink[i].record \in 1..Len(arg.frames)
     /\ sink[i].direction =
          IF SourcePort(arg.frames[sink[i].record]) = port
          THEN "Broker->Client:" ELSE "Client->Broker:"
     /\ \A j \in 1..Len(sink) :
          sink[j].record = sink[i].record => sink[j].direction = sink[i].direction

\* two packets of one record from the broker, then one of a record to it
C18_Witness ==
  /\ Len(sink) = 3
  /\ sink[1].record = 1 /\ sink[2].record = 1 /\ sink[3].record = 2
  /\ sink[1].direction = "Broker->Client:" /\ sink[2].direction = "Broker->Client:"
  /\ sink[3].direction = "Client->Broker:"
  /\ dst_port(arg.frames[2]) = port

\* the next read is cut short: fewer than 16 bytes are left, or fewer than
\* the length announced at bytes 8..12 of the record header after it
ShortReadAhead ==
  \/ Len(stream) - stream_pos < 16
  \/ Len(stream) - stream_pos - 16
       < stream[stream_pos + 9] + 256 * stream[stream_pos + 10]
           + 65536 * stream[stream_pos + 11] + 16777216 * stream[stream_pos + 12]

(* C19: the capture loop stops, without reporting an error and without     *)
(* forwarding any packet from the incomplete record, as soon as a read     *)
(* returns fewer than 16 record-header bytes or fewer body bytes than the  *)
(* header announces; every complete record read before that point has     *)
(* already been processed, in stream order.                                *)
C19_ShortReadStops ==
  [][ /\ (pc = "read_record" /\ ShortReadAhead /\ ~interrupted' /\ reported = "none")
         => /\ pc' = "finally"
            /\ sink' = sink
            /\ reported' = "none"
            /\ processed' = arg.frames
      /\ (pc = "read_record" /\ ~ShortReadAhead /\ ~interrupted')
         => (pc' = "extract" /\ pkt_data' = arg.frames[Len(processed) + 1])
      /\ pc = "finally" => (pc' = "ended" /\ reported' = reported /\ sink' = sink) ]_vars

\* the loop has stopped in a cut record body after two records, no error reported
C19_Witness ==
  /\ pc = "ended" /\ reported = "none" /\ ~interrupted
  /\ Len(arg.tail) > 16 /\ Len(arg.frames) = 2
  /\ processed = arg.frames
  /\ stream_pos = Len(stream)

(* C20: once the capture process has been launched, every way the capture  *)
(* loop ends (end of stream, interrupt, unexpected error) is followed by   *)
(* terminating the capture process; the loop never ends leaving it         *)
(* running, and after an interrupt no further record is read.              *)
C20_InterruptEndsCapture ==
  [][ /\ pc' = "ended" => proc' # "running"
      /\ interrupted => (stream_pos' = stream_pos /\ pc' \notin {"read_record", "extract"})
    ]_vars

\* what holds of the code: however the loop ends, the capture process, if
\* it was launched, is terminated
C20_EndedTerminates ==
  /\ pc = "ended" => proc \in {"none", "terminated"}
  /\ proc = "none" => pc \in {"launch", "error", "finally", "ended"}
  /\ pc \in {"interrupted"} => interrupted

\* the interrupt was caught inside decode_publish and a record was read after it
C20_ReadAfterInterrupt ==
  /\ interrupted /\ pc = "extract" /\ Len(processed) = 1
  /\ sink # <<>> /\ sink[Len(sink)].packet.details.payload_type = "hex"

\* the packets forwarded from record r, each with its offset in the payload
RecordPackets(r) ==
  LET own == SelectSeq(sink, LAMBDA e : e.record = r)
  IN  [i \in 1..Len(own) |-> [packet |-> own[i].packet, at |-> own[i].at]]

(* C21: decoding depends only on the buffer passed in: packet_queue and    *)
(* tcp_stream of the decoder are never changed, and a TCP segment decodes  *)
(* to the same sequence of packets whatever segments were processed        *)
(* before it (no interrupt signal being caught by the decoder).            *)
C21_SegmentsIndependent ==
  /\ packet_queue = <<>> /\ tcp_stream = <<>>
  /\ ~interrupted =>
       \A r \in 1..Len(processed) :
          RecordPackets(r) =
            segment_packets(SliceFrom(processed[r], PayloadOffset(processed[r])), 0)

\* CONNACK and PINGRESP decoded from the second segment, after a PUBLISH
\* whose decoding left the cursor at 7
C21_Witness ==
  /\ Len(processed) = 2 /\ ~interrupted
  /\ Len(RecordPackets(1)) = 1 /\ RecordPackets(1)[1].packet.type = "PUBLISH"
  /\ mux_packet_len(SliceFrom(processed[1], PayloadOffset(processed[1])), 0) = 7
  /\ Len(RecordPackets(2)) = 2
  /\ RecordPackets(2)[1].packet.type = "CONNACK" /\ RecordPackets(2)[1].at = 0
  /\ RecordPackets(2)[2].packet.type = "PINGRESP" /\ RecordPackets(2)[2].at = 4

----------------------------------------------------------------------------
(* SpecConnack: decode_packet on CONNACK packets with every return code,   *)
(* sample acknowledge-flags bytes, and MaxConnackExtra or fewer bytes      *)
(* after the two body bytes.                                               *)

MaxConnackExtra == 1

AckFlags == {0, 1, 2, 3, 254, 255}

connack_packet(a) == mqtt_packet(2, 0, <<a.ack, a.code>> \o [i \in 1..a.extra |-> 7])

ConnackInit ==
  /\ pc = "start"
  /\ ret = NonePacket /\ ret2 = NonePacket
  /\ offset = 0
  /\ \E ack \in AckFlags, code \in 0..255, extra \in 0..MaxConnackExtra :
       /\ arg = [ack |-> ack, code |-> code, extra |-> extra]
       /\ data = connack_packet(arg)
       /\ data2 = connack_packet(arg)
  /\ IdleMux

SpecConnack == ConnackInit /\ [][CallDecodePacket]_vars

(* C22: for a CONNACK whose body has at least 2 bytes, session_present is  *)
(* bit 0 of the first body byte and the return code is the second body     *)
(* byte; codes 0..5 map to six distinct reason strings, and every other    *)
(* code (6..255) yields an "Unknown" description carrying the code, the    *)
(* packet being returned all the same.                                     *)
C22_Connack ==
  pc = "done" =>
     /\ IsPacket(ret) /\ ret.type = "CONNACK" /\ ret.remaining_length = 2 + arg.extra
     /\ DOMAIN ret.details = {"session_present", "return_code", "return_msg"}
     /\ ret.details.session_present = (arg.ack % 2 = 1)
     /\ ret.details.return_code = arg.code
     /\ arg.code \in 0..5 =>
          /\ ret.details.return_msg = [fmt |-> CONNACK_CODES[arg.code], code |-> NoneInt]
          /\ \A c \in 0..5 : CONNACK_CODES[c] = CONNACK_CODES[arg.code] => c = arg.code
          /\ CONNACK_CODES[arg.code] # "Unknown ({return_code})"
     /\ arg.code \in 6..255 =>
          ret.details.return_msg = [fmt |-> "Unknown ({return_code})", code |-> arg.code]

\* return code 5 with session present has been decoded to "Not authorized"
C22_Witness ==
  /\ pc = "done" /\ arg.ack = 1 /\ arg.code = 5
  /\ ret.details.session_present
  /\ ret.details.return_msg.fmt = "Not authorized"

\* return code 255 has been decoded to a packet with the "Unknown" description
C22_WitnessUnknown ==
  /\ pc = "done" /\ arg.ack = 254 /\ arg.code = 255
  /\ IsPacket(ret) /\ ~ret.details.session_present
  /\ ret.details.return_msg = [fmt |-> "Unknown ({return_code})", code |-> 255]

----------------------------------------------------------------------------
(* The multiplexer on a payload, once more (SpecMux, SpecMuxFair).         *)

\* the bytes of the payload from the cursor on
RestOfPayload == SubSeq(mqtt_data, mux_offset + 1, Len(mqtt_data))

\* fewer than 2 bytes remain at the cursor
FewerThanTwoLeft == Len(RestOfPayload) < 2

\* the high nibble of the byte at the cursor is not in 1..14
NoTypeAtCursor == Len(RestOfPayload) >= 1 /\ RestOfPayload[1] \div 16 \notin 1..14

\* decode_packet fails on the bytes at the cursor
DecodeFailsAtCursor ==
  ~FewerThanTwoLeft /\ ~NoTypeAtCursor /\ decode_packet(RestOfPayload) = NonePacket

MuxStopsHere == FewerThanTwoLeft \/ NoTypeAtCursor \/ DecodeFailsAtCursor

(* C23: the multiplexer emits nothing from the rest of a buffer once its   *)
(* cursor reaches a position where fewer than 2 bytes remain, where the    *)
(* high nibble of the byte at the cursor is not in 1..14, or where         *)
(* decode_packet fails; the packets emitted before that position are      *)
(* kept, and no later position of the buffer is tried.                     *)
C23_StopsAtFirstFailure ==
  [][ /\ (pc = "mux" /\ MuxStopsHere) =>
            (pc' = "mux_done" /\ sink' = sink /\ mux_offset' = mux_offset)
      /\ Len(sink') >= Len(sink) /\ SubSeq(sink', 1, Len(sink)) = sink
      /\ mux_offset' >= mux_offset
      /\ pc' = "mux_done" =>
            /\ MuxStopsHere'
            /\ \A i \in 1..Len(sink') : sink'[i].at < mux_offset'
      /\ pc # "mux_done" ]_vars

\* the loop has ended on a decode failure after one packet, with bytes of
\* the buffer left after the cursor
C23_Witness ==
  /\ pc = "mux_done" /\ Len(sink) = 1
  /\ DecodeFailsAtCursor
  /\ Len(RestOfPayload) >= 3

\* the loop has ended after one packet on a byte that is no packet type,
\* with a whole packet behind it
C23_WitnessType ==
  /\ pc = "mux_done" /\ Len(sink) = 1
  /\ NoTypeAtCursor
  /\ Len(RestOfPayload) >= 3
  /\ decode_packet(SubSeq(RestOfPayload, 2, Len(RestOfPayload))) \notin {NonePacket, HangPacket}

----------------------------------------------------------------------------
(* The order of the CONNECT fields (SpecConnect).                          *)

\* the number of body bytes of the CONNECT packet that are in the buffer
BodyBytes == Len(data) - 2

\* the offsets in the body at which the fields of connect_packet(arg) end
EndProtocol == Len(mqtt_string(<<77, 81, 84, 84>>))
EndKeepAlive == EndProtocol + 4
EndClientId == EndKeepAlive + 3
EndWill == EndClientId + (IF arg.will THEN 6 ELSE 0)
EndUsername == EndWill + (IF arg.username THEN 3 ELSE 0)
EndPassword == EndUsername + (IF arg.password THEN 2 + Len(arg.pws[1]) ELSE 0)

\* the body reports the string field k with a value
Reported(k) == k \in DOMAIN ret.details /\ ret.details[k] # NoneStr

\* the body reports the field k of the variable header
ReportedHeader(k) == k \in DOMAIN ret.details

(* C24: in CONNECT decoding the fields are read in the order protocol      *)
(* name, level, connect flags, keep alive, client id, will topic, will     *)
(* message, username, password, and a field that cannot be read from the   *)
(* buffer stops the decoding of the fields after it: no later field is     *)
(* read from the bytes at that position or reported with a value (level,   *)
(* flags and keep alive are not taken from the bytes of a protocol name    *)
(* that failed to decode; no password placeholder is reported when the     *)
(* password bytes are absent).                                             *)
C24_FailedFieldStopsDecoding ==
  (pc = "done" /\ IsPacket(ret)) =>
     /\ Reported("protocol") => BodyBytes >= EndProtocol
     /\ \A k \in {"level", "clean_session", "will", "will_qos", "will_retain",
                  "password", "username", "keep_alive"} :
          ReportedHeader(k) => BodyBytes >= EndKeepAlive
     /\ Reported("client_id") => BodyBytes >= EndClientId
     /\ (Reported("will_topic") \/ Reported("will_message")) => BodyBytes >= EndWill
     /\ Reported("username_val") => BodyBytes >= EndUsername
     /\ Reported("password_val") => BodyBytes >= EndPassword

\* what holds of the code: a field that is read is reported from the bytes
\* at its place in the wire order, and the fields in the buffer are reported
C24_FieldsInWireOrder ==
  (pc = "done" /\ IsPacket(ret)) =>
     /\ BodyBytes >= EndProtocol <=> Reported("protocol")
     /\ BodyBytes >= EndKeepAlive =>
          /\ ret.details.level = 4
          /\ ret.details.keep_alive = 256 * arg.keep[1] + arg.keep[2]
          /\ ret.details.will = arg.will /\ ret.details.username = arg.username
          /\ ret.details.password = arg.password
          /\ BodyBytes >= EndClientId <=> Reported("client_id")
          /\ arg.will => (BodyBytes >= EndWill <=> Reported("will_message"))
          /\ arg.username => (BodyBytes >= EndUsername <=> Reported("username_val"))
          /\ arg.password <=> Reported("password_val")

\* level, flags and keep alive have been taken from the bytes 00 04 4D 51
\* of a protocol name that failed to decode
C24_HeaderFromFailedName ==
  /\ pc = "done" /\ BodyBytes = 4
  /\ ret.details.protocol = NoneStr
  /\ ret.details.level = 0 /\ ret.details.will /\ ret.details.keep_alive = 19793
  /\ ret.details.client_id = NoneStr

\* the placeholder has been reported for a password cut out of the buffer
C24_PlaceholderWithoutPassword ==
  /\ pc = "done" /\ arg.password /\ BodyBytes = EndUsername
  /\ ret.details.password_val = HiddenPassword

----------------------------------------------------------------------------
(* The PUBLISH body (SpecPublish).                                         *)

\* the QoS bits of the flags nibble the packet was built with
BuiltQos == (arg.flags \div 2) % 4

\* the payload bytes left in the buffer, the cut taking no more than payload
PayloadInBuffer == SubSeq(arg.payload, 1, Len(arg.payload) - arg.cut)

\* the sample payloads and their prefixes as Python reports them: "" , "h",
\* "hi" and "é" are text, the lone lead byte 0xC3 is the hex string "c3"
ReportedPayload(p) ==
  CASE p = <<>>         -> [payload |-> <<>>, payload_type |-> "text"]
    [] p = <<104>>      -> [payload |-> <<104>>, payload_type |-> "text"]
    [] p = <<104, 105>> -> [payload |-> <<104, 105>>, payload_type |-> "text"]
    [] p = <<195, 169>> -> [payload |-> <<233>>, payload_type |-> "text"]
    [] p = <<195>>      -> [payload |-> <<99, 51>>, payload_type |-> "hex"]

C25_WitnessQos0 ==
  /\ pc = "done" /\ arg.flags = 0 /\ arg.cut = 0
  /\ data = <<48, 5, 0, 1, 97, 104, 105>>
  /\ "packet_id" \notin DOMAIN ret.details
  /\ ret.details.payload_type = "text" /\ ret.details.payload = <<104, 105>>

----------------------------------------------------------------------------
(* SpecUnsubscribe: decode_packet on UNSUBSCRIBE packets made of a packet  *)
(* id and 0..MaxUnsubscribeTopics topic strings ("a/b", "a", U+00E9 or the *)
(* empty string), ending at the end of the buffer or followed by one byte. *)

MaxUnsubscribeTopics == 3

SampleTopics == {<<97, 47, 98>>, <<97>>, <<233>>, <<>>}

UnsubscribeTrailers == {<<>>, <<0>>}

RECURSIVE topic_bytes(_)
\* the topic strings on the wire (MQTT 3.1.1, 3.10.3)
topic_bytes(ts) ==
  IF ts = <<>> THEN <<>>
  ELSE mqtt_string(utf8_encode(Head(ts))) \o topic_bytes(Tail(ts))

unsubscribe_packet(a) ==
  mqtt_packet(10, 2, <<a.id \div 256, a.id % 256>> \o topic_bytes(a.topics) \o a.trailer)

UnsubscribeInit ==
  /\ pc = "start"
  /\ ret = NonePacket /\ ret2 = NonePacket
  /\ offset = 0
  /\ \E id \in SubscribeIds, n \in 0..MaxUnsubscribeTopics, t \in UnsubscribeTrailers :
       \E ts \in [1..n -> SampleTopics] :
          /\ arg = [id |-> id, topics |-> ts, trailer |-> t]
          /\ data = unsubscribe_packet(arg)
          /\ data2 = <<>>
  /\ IdleMux

SpecUnsubscribe == UnsubscribeInit /\ [][CallDecodePacket]_vars

(* C26: an UNSUBSCRIBE body made of a 2-byte packet id followed by n >= 0  *)
(* complete length-prefixed topic strings ending exactly at the end of the *)
(* buffer decodes to that packet id (big-endian) and the list of all n     *)
(* topic strings in wire order.                                            *)
C26_UnsubscribeBody ==
  (pc \in {"done", "hung"} /\ arg.trailer = <<>>) =>
     /\ pc = "done"
     /\ IsPacket(ret) /\ ret.type = "UNSUBSCRIBE"
     /\ ret.packet_id = arg.id
     /\ ret.topics = arg.topics

\* what holds of the code: the list holds the topic strings that are not
\* empty, in wire order
C26_NonEmptyTopicsListed ==
  (pc \in {"done", "hung"} /\ arg.trailer = <<>>) =>
     /\ pc = "done"
     /\ IsPacket(ret) /\ ret.type = "UNSUBSCRIBE"
     /\ ret.packet_id = arg.id
     /\ ret.topics = SelectSeq(arg.topics, LAMBDA t : t # <<>>)

\* "a", "" and "a/b" have been decoded to the two topics "a" and "a/b"
C26_EmptyTopicDropped ==
  /\ pc = "done" /\ arg.id = 258
  /\ arg.topics = <<<<97>>, <<>>, <<97, 47, 98>>>>
  /\ data = <<162, 12, 1, 2, 0, 1, 97, 0, 0, 0, 3, 97, 47, 98>>
  /\ ret.topics = <<<<97>>, <<97, 47, 98>>>>

\* a packet id alone has been decoded to an empty list
C26_NoTopics ==
  /\ pc = "done" /\ arg.topics = <<>> /\ arg.trailer = <<>>
  /\ ret.packet_id = 65535 /\ ret.topics = <<>>

----------------------------------------------------------------------------
(* The fixed header of a returned packet (SpecPacket).                     *)

RECURSIVE LengthValue(_, _)
\* the value of the n bytes after byte 0 as base-128 digits, lowest first
LengthValue(d, n) ==
  IF n = 0 THEN 0
  ELSE LengthValue(d, n - 1) + (d[1 + n] % 128) * 128 ^ (n - 1)

\* bytes 1..n of the buffer are a Remaining Length: n - 1 bytes with the
\* continuation bit and a terminating byte, all in the buffer
LengthFieldOf(d, n) ==
  /\ 1 + n <= Len(d)
  /\ \A i \in 1..(n - 1) : d[1 + i] >= 128
  /\ d[1 + n] < 128

\* bytes 1..n of the buffer all have the continuation bit and end the buffer
LengthCutAt(d, n) ==
  /\ 1 + n = Len(d)
  /\ \A i \in 1..n : d[1 + i] >= 128

(* C27: every packet returned by decode_packet, for any input buffer, has  *)
(* type_code in 1..14 with type the name of that code, flags equal to the  *)
(* low nibble of byte 0, and remaining_length in 0..268,435,455 obtained   *)
(* from 1 to 4 remaining-length bytes that all lie inside the buffer.      *)
C27_FixedHeader ==
  (pc = "done" /\ ret # NonePacket) =>
     /\ IsPacket(ret)
     /\ ret.type_code = data[1] \div 16 /\ ret.type_code \in 1..14
     /\ ret.type = MQTT_PACKET_TYPES[ret.type_code]
     /\ ret.flags = data[1] % 16 /\ ret.flags \in 0..15
     /\ ret.remaining_length \in 0..268435455
     /\ \E n \in 1..4 :
          LengthFieldOf(data, n) /\ ret.remaining_length = LengthValue(data, n)

\* what holds of the code: the length is the value of a Remaining Length
\* in the buffer, or of 1 to 3 continuation bytes at which the buffer ends
C27_HeaderOrCutLength ==
  (pc = "done" /\ ret # NonePacket) =>
     /\ IsPacket(ret)
     /\ ret.type_code = data[1] \div 16
     /\ ret.flags = data[1] % 16
     /\ ret.remaining_length \in 0..268435455
     /\ \E n \in 1..4 :
          /\ LengthFieldOf(data, n) \/ (n < 4 /\ LengthCutAt(data, n))
          /\ ret.remaining_length = LengthValue(data, n)

\* a CONNECT packet has been returned for a buffer that ends in the
\* continuation bytes 0xFF 0x80 of its Remaining Length
C27_LengthCutReturned ==
  /\ pc = "done" /\ data = <<16, 255, 128>>
  /\ IsPacket(ret) /\ ret.remaining_length = 127

----------------------------------------------------------------------------
(* A packet followed by further bytes (SpecPacket).                        *)

\* the buffer is the whole sample packet arg followed by one or more bytes
PacketThenBytes ==
  /\ arg # <<>> /\ Len(data) > Len(arg)
  /\ SubSeq(data, 1, Len(arg)) = arg

(* C28: decoding a buffer that holds one complete packet followed by       *)
(* further bytes gives the same first packet as decoding that packet's     *)
(* bytes alone: no decoded field (PUBLISH payload, SUBACK return codes,    *)
(* SUBSCRIBE or UNSUBSCRIBE topics) is taken from bytes at or beyond       *)
(* offset 1 + number of remaining-length bytes + remaining length.         *)
C28_TrailingBytesIgnored ==
  (pc \in {"done", "hung"} /\ PacketThenBytes) =>
     /\ pc = "done"
     /\ ret = ret2

\* what holds of the code: the packets of the types whose body is read by
\* fixed offsets are the same with and without bytes behind them
C28_FixedBodiesUnaffected ==
  (pc \in {"done", "hung"} /\ PacketThenBytes /\ arg[1] \div 16 \notin {3, 8, 9, 10}) =>
     /\ pc = "done"
     /\ ret = ret2

\* a PINGREQ behind a PUBLISH has been taken into its payload: "hi" alone
\* is text, with C0 00 behind it the payload is the hex of all four bytes
C28_PayloadTakesNextPacket ==
  /\ pc = "done"
  /\ data = <<48, 7, 0, 3, 97, 47, 98, 104, 105, 192, 0>>
  /\ ret2.details.payload = <<104, 105>> /\ ret2.details.payload_type = "text"
  /\ ret.details.payload = <<54, 56, 54, 57, 99, 48, 48, 48>>
  /\ ret.details.payload_type = "hex"

\* the byte behind a SUBACK has been taken as a return code
C28_ReturnCodesTakeNextByte ==
  /\ pc = "done"
  /\ data = <<144, 3, 0, 1, 1, 0>>
  /\ ret2.return_codes = <<1>> /\ ret.return_codes = <<1, 0>>

----------------------------------------------------------------------------
(* BaseSensorSimTask (programmingtheiot/cda/sim/BaseSensorSimTask.py)      *)

\* DEFAULT_MIN_VAL = ConfigConst.DEFAULT_VAL
DEFAULT_MIN_VAL == 0

\* DEFAULT_MAX_VAL = 100.0 (line 43)
DEFAULT_MAX_VAL == 100

\* SensorDataSet.getDataEntry(index)
getDataEntry(ds, index) == ds[index + 1]

\* SensorDataSet.getDataEntryCount()
getDataEntryCount(ds) == Len(ds)

\* lines 67-70: the index after one more entry was taken
next_dataSetIndex(ds, index) ==
  IF index + 1 >= getDataEntryCount(ds) - 1 THEN 0 ELSE index + 1

MaxEntries == 3

MaxCalls == 6

EntryValues == {10, 20, 30}

\* random.uniform(self.minVal, self.maxVal): the two ends stand for the range
RandomSamples == {DEFAULT_MIN_VAL, DEFAULT_MAX_VAL}

\* __init__ (lines 45-57) with a data set of 1..MaxEntries entries, or none
SimInit ==
  /\ pc = "sim"
  /\ \/ \E n \in 1..MaxEntries : \E ds \in [1..n -> EntryValues] :
          dataSet = ds /\ useRandomizer = FALSE
     \/ dataSet = NoneData /\ useRandomizer = TRUE
  /\ dataSetIndex = 0
  /\ latestSensorData = NoneData
  /\ returned = <<>>
  /\ IdleDecoder /\ IdleTelemetry

\* generateTelemetry (lines 59-76)
generateTelemetry ==
  /\ pc = "sim"
  /\ Len(returned) < MaxCalls
  /\ \E sensorVal \in (IF useRandomizer THEN RandomSamples
                       ELSE {getDataEntry(dataSet, dataSetIndex)}) :
       /\ latestSensorData' = [name |-> "sensor", value |-> sensorVal]
       /\ returned' = Append(returned, sensorVal)
  /\ dataSetIndex' = IF useRandomizer THEN dataSetIndex
                     ELSE next_dataSetIndex(dataSet, dataSetIndex)
  /\ UNCHANGED <<pc, dataSet, useRandomizer>>
  /\ UNCHANGED <<data, offset, arg, ret, data2, ret2, mqtt_data, mux_offset, sink, topics>>
  /\ UNCHANGED <<capture_vars, telemetry_vars>>

(* SpecSim: a BaseSensorSimTask on every data set of 1..MaxEntries entries *)
(* out of EntryValues, or on none, with MaxCalls or fewer calls of         *)
(* generateTelemetry.                                                      *)
SpecSim == SimInit /\ [][generateTelemetry]_vars

(* C30: for a BaseSensorSimTask built on a dataset of n >= 1 entries,      *)
(* successive generateTelemetry calls return the entries at indices 0, 1,  *)
(* ..., n-1 in order and then wrap around to index 0, so that every entry  *)
(* is returned, and dataSetIndex stays within 0..n-1 after every call.     *)
C30_CyclesThroughDataset ==
  ~useRandomizer =>
     /\ dataSetIndex \in 0..(Len(dataSet) - 1)
     /\ \A k \in 1..Len(returned) :
          /\ returned[k] = dataSet[((k - 1) % Len(dataSet)) + 1]
          /\ latestSensorData.value = returned[Len(returned)]

\* what holds of the code: the index wraps one entry early, the calls cycle
\* through the entries 0..n-2 (entry 0 alone when n = 1) and dataSetIndex
\* stays within 0..n-1
C30_WrapsOneEarly ==
  ~useRandomizer =>
     /\ dataSetIndex \in 0..(Len(dataSet) - 1)
     /\ dataSetIndex # Len(dataSet) - 1 \/ Len(dataSet) = 1
     /\ \A k \in 1..Len(returned) :
          returned[k] =
            dataSet[((k - 1) % (IF Len(dataSet) = 1 THEN 1 ELSE Len(dataSet) - 1)) + 1]

\* six calls on the data set 10, 20, 30 have returned 10, 20, 10, 20, 10, 20
C30_LastEntryNeverReturned ==
  /\ ~useRandomizer
  /\ dataSet = <<10, 20, 30>>
  /\ returned = <<10, 20, 10, 20, 10, 20>>
  /\ dataSetIndex = 0

----------------------------------------------------------------------------
(* DeviceDataManager and GetTelemetryResourceHandler                       *)
(* (programmingtheiot/cda/app/DeviceDataManager.py,                        *)
(*  programmingtheiot/cda/connection/handlers/GetTelemetryResourceHandler.py) *)

SensorNames == {"TempSensor", "HumiditySensor"}

SensorValues == {21, 22}

\* the SensorData objects handed to the manager and the handler
SampleSensorData == [name : SensorNames, value : SensorValues]

\* DataUtil.sensorDataToJson (DataUtil.py, lines 43-47): "" for None, else
\* the JSON text of the object's attributes
sensorDataToJson(d) ==
  IF d = NoneData THEN [text |-> ""] ELSE [text |-> "json", attributes |-> d]

\* DeviceDataManager.getLatestSensorDataFromCache(name) (lines 151-160);
\* name "None" is the default argument
getLatestSensorDataFromCache(cache, name) ==
  IF name # "None" /\ name \in DOMAIN cache THEN cache[name] ELSE NoneData

\* self.sensorDataCache[data.getName()] = data (line 244)
cache_put(cache, d) ==
  [n \in DOMAIN cache \cup {d.name} |-> IF n = d.name THEN d ELSE cache[n]]

\* the operations leave the decoder and the simulation task alone
TelemetryFrame ==
  /\ UNCHANGED <<data, offset, arg, ret, data2, ret2, mqtt_data, mux_offset, sink, topics>>
  /\ UNCHANGED <<capture_vars, sim_vars>>

\* DeviceDataManager.handleSensorMessage (lines 233-259); the analysis and
\* the upstream transmission do not touch the cache
handleSensorMessage ==
  /\ \E d \in SampleSensorData \cup {NoneData} :
       sensorDataCache' = IF d # NoneData THEN cache_put(sensorDataCache, d)
                          ELSE sensorDataCache
  /\ pc' = "handleSensorMessage"
  /\ UNCHANGED <<dataMsgListener, latestData, handler_payload>>
  /\ TelemetryFrame

\* GetTelemetryResourceHandler.setDataMessageListener (lines 119-125)
setDataMessageListener ==
  /\ \E listener \in {"None", "DeviceDataManager"} : dataMsgListener' = listener
  /\ pc' = "setDataMessageListener"
  /\ UNCHANGED <<sensorDataCache, latestData, handler_payload>>
  /\ TelemetryFrame

\* GetTelemetryResourceHandler.render_GET (lines 58-84)
render_GET ==
  /\ IF dataMsgListener # "None"
     THEN \E latest \in {getLatestSensorDataFromCache(sensorDataCache, "None")} :
            /\ latestData' = latest
            /\ handler_payload' = IF latest # NoneData THEN sensorDataToJson(latest)
                                  ELSE [text |-> "{}"]
     ELSE /\ handler_payload' = [text |-> "{}"]
          /\ UNCHANGED latestData
  /\ pc' = "render_GET"
  /\ UNCHANGED <<sensorDataCache, dataMsgListener>>
  /\ TelemetryFrame

\* render_PUT, render_POST, render_DELETE (lines 86-117)
render_unsupported ==
  /\ \E method \in {"PUT", "POST", "DELETE"} :
       /\ handler_payload' = [text |-> "error", method |-> method]
       /\ pc' = "render_" \o method
  /\ UNCHANGED <<sensorDataCache, dataMsgListener, latestData>>
  /\ TelemetryFrame

\* GetTelemetryResourceHandler.onSensorDataUpdate (lines 127-144)
onSensorDataUpdate ==
  /\ \E d \in SampleSensorData \cup {NoneData} :
       IF d # NoneData
       THEN latestData' = d /\ handler_payload' = sensorDataToJson(d)
       ELSE UNCHANGED <<latestData, handler_payload>>
  /\ pc' = "onSensorDataUpdate"
  /\ UNCHANGED <<sensorDataCache, dataMsgListener>>
  /\ TelemetryFrame

TelemetryNext ==
  \/ handleSensorMessage
  \/ setDataMessageListener
  \/ render_GET
  \/ render_unsupported
  \/ onSensorDataUpdate

\* the manager and the handler after their __init__ (lines 81 and 44-54)
TelemetryInit ==
  /\ pc = "built"
  /\ sensorDataCache = <<>>
  /\ dataMsgListener = "None"
  /\ latestData = NoneData
  /\ handler_payload = [text |-> "{}"]
  /\ IdleDecoder /\ IdleSim

(* SpecTelemetry: a DeviceDataManager and a GetTelemetryResourceHandler,   *)
(* their operations called in any order.                                   *)
SpecTelemetry == TelemetryInit /\ [][TelemetryNext]_vars

(* C29: after DeviceDataManager has handled a non-null sensor message, a   *)
(* GET on a GetTelemetryResourceHandler whose data message listener is     *)
(* that manager returns the JSON of the latest cached sensor data, not the *)
(* empty object "{}"; the empty object is returned only when no sensor     *)
(* data has been cached or no listener is set.                             *)
C29_GetReturnsCachedData ==
  pc = "render_GET" =>
     IF dataMsgListener = "DeviceDataManager" /\ DOMAIN sensorDataCache # {}
     THEN /\ handler_payload # [text |-> "{}"]
          /\ \E n \in DOMAIN sensorDataCache :
               handler_payload = [text |-> "json", attributes |-> sensorDataCache[n]]
     ELSE handler_payload = [text |-> "{}"]

\* what holds of the code: a GET returns the empty object, whatever is cached
C29_GetReturnsEmptyObject ==
  pc = "render_GET" =>
     /\ handler_payload = [text |-> "{}"]
     /\ dataMsgListener # "None" => latestData = NoneData

\* the empty object has been returned with the manager as listener and a
\* TempSensor reading in its cache
C29_EmptyObjectWithCachedData ==
  /\ pc = "render_GET" /\ dataMsgListener = "DeviceDataManager"
  /\ "TempSensor" \in DOMAIN sensorDataCache
  /\ sensorDataCache["TempSensor"].value = 21
  /\ handler_payload = [text |-> "{}"]

====
